---- MODULE Spec2Model ----
(***************************************************************************)
(* Registration flow of wynn-resorts: the registration form controller     *)
(* (useRegistrationForm), the OTP send controller (useOTPSend), the OTP    *)
(* confirm controller (useOTPConfirm), the HTTP client (lib/api/otp) and   *)
(* the browser's localStorage and router they share.                       *)
(*                                                                         *)
(* A JavaScript string is a sequence of one-character strings; storage     *)
(* keys, paths, notification texts and event names, which the code never   *)
(* inspects, are TLA+ strings.                                             *)
(***************************************************************************)
EXTENDS Bags, FiniteSets, Integers, Naturals, Sequences, TLC

VARIABLES
    route,          \* the page the browser shows ("none" before the first load)
    storage,        \* localStorage: a function from the keys present to their text
    errors,         \* useRegistrationForm: formState.errors (field -> message)
    isSubmitting,   \* useRegistrationForm: formState.isSubmitting
    pending,        \* useRegistrationForm: the values a running handleSubmit captured
    selectedMethod, \* useOTPSend
    isLoading,      \* useOTPSend
    message,        \* useOTPSend
    userEmail,      \* useOTPSend
    userPhone,      \* useOTPSend
    otp,            \* useOTPConfirm
    isResending,    \* useOTPConfirm
    isVerifying,    \* useOTPConfirm
    otpMethod,      \* useOTPConfirm
    inflight,       \* requests issued by fetch and not yet settled (a bag)
    phoneNumber,    \* PhoneNumberInput: the text its input shows
    selectedCountry,\* PhoneNumberInput: the country of its selector
    value,          \* PhoneNumberInput: the value prop its parent passes
    isOpen,         \* CountrySelector: is the panel shown
    searchTerm,     \* CountrySelector: the text of the search box
    focus,          \* OTPInput: the cell that has the focus (NoFocus: none)
    act,            \* the handler step that produced this state, with its inputs
    ev              \* the calls that step made on the environment, in order

regVars  == <<errors, isSubmitting, pending>>
sendVars == <<selectedMethod, isLoading, message, userEmail, userPhone>>
confVars == <<otp, isResending, isVerifying, otpMethod>>
phoneVars == <<phoneNumber, selectedCountry, value, isOpen, searchTerm>>
widgetVars == <<phoneNumber, selectedCountry, value, isOpen, searchTerm, focus>>
vars == <<route, storage, errors, isSubmitting, pending, selectedMethod, isLoading,
          message, userEmail, userPhone, otp, isResending, isVerifying, otpMethod,
          inflight, phoneNumber, selectedCountry, value, isOpen, searchTerm, focus, act, ev>>

-----------------------------------------------------------------------------
(* Bounds of the model                                                     *)

\* requests that may be unsettled at the same time
MaxInFlight == 2

-----------------------------------------------------------------------------
(* Strings                                                                 *)

EMPTY == <<>>
EMAIL == <<"e", "m", "a", "i", "l">>
PHONE == <<"p", "h", "o", "n", "e">>
GenderMale == <<"m", "a", "l", "e">>
GenderFemale == <<"f", "e", "m", "a", "l", "e">>
GenderOther == <<"o", "t", "h", "e", "r">>
\* the value of a form field nothing was entered into (JavaScript undefined)
UNDEF == <<"undefined">>

Digit == {"0", "1", "2", "3", "4", "5", "6", "7", "8", "9"}
Alpha == {"a", "b", "c", "d", "e", "f", "g", "h", "i", "j", "k", "l", "m",
          "n", "o", "p", "q", "r", "s", "t", "u", "v", "w", "x", "y", "z",
          "A", "B", "C", "D", "E", "F", "G", "H", "I", "J", "K", "L", "M",
          "N", "O", "P", "Q", "R", "S", "T", "U", "V", "W", "X", "Y", "Z"}

\* the keys whose values are JavaScript booleans; every other value is a string
BoolKeys == {"acceptTerms"}

IsUndefined(obj, k) == k \notin DOMAIN obj \/ (k \notin BoolKeys /\ obj[k] = UNDEF)

\* obj[k] without the || ""
OrEmpty_NoDefault(obj, k) == IF k \in DOMAIN obj THEN obj[k] ELSE UNDEF

\* obj[k] || ""
OrEmpty(obj, k) == IF IsUndefined(obj, k) \/ obj[k] = EMPTY THEN EMPTY ELSE obj[k]

\* { ...base, ...over }
Spread(base, over) ==
    [k \in (DOMAIN base) \cup (DOMAIN over) |-> IF k \in DOMAIN over THEN over[k] ELSE base[k]]

-----------------------------------------------------------------------------
(* Form Validation Schema (lib/validations/registration)                   *)

Fields == {"firstName", "lastName", "gender", "country", "email", "phone", "acceptTerms"}

genderEnum == {GenderMale, GenderFemale, GenderOther}

\* z.string().email(): the address shape zod accepts,
\* ^(?!\.)(?!.*\.\.)([A-Z0-9_'+\-\.]*)[A-Z0-9_+-]@([A-Z0-9][A-Z0-9\-]*\.)+[A-Z]{2,}$
LocalChar == Alpha \cup Digit \cup {"_", "'", "+", "-", "."}
LocalLast == Alpha \cup Digit \cup {"_", "+", "-"}
AlNum == Alpha \cup Digit

IsDomain(d) ==
    /\ Len(d) >= 4
    /\ \E dot \in 2..(Len(d) - 2) :
         /\ d[dot] = "."
         /\ \A j \in (dot + 1)..Len(d) : d[j] \in Alpha
         /\ \A j \in 1..dot : d[j] \in AlNum \cup {"-", "."}
         /\ d[1] \in AlNum
         /\ \A j \in 1..(dot - 1) : d[j] = "." => d[j + 1] \in AlNum

IsEmail(s) ==
    \E at \in 2..(Len(s) - 1) :
        /\ s[at] = "@"
        /\ s[1] # "."
        /\ \A j \in 1..(Len(s) - 1) : ~(s[j] = "." /\ s[j + 1] = ".")
        /\ \A j \in 1..(at - 1) : s[j] \in LocalChar
        /\ s[at - 1] \in LocalLast
        /\ IsDomain(SubSeq(s, at + 1, Len(s)))

NoError == "ok"

\* the first issue zod reports for a field, which is the one the resolver keeps
FieldIssue(f, data) ==
    LET v == data[f] IN
    CASE f = "firstName" ->
           IF v = UNDEF THEN "Required"
           ELSE IF Len(v) < 1 THEN "First name is required"
           ELSE IF Len(v) < 2 THEN "First name must be at least 2 characters"
           ELSE NoError
      [] f = "lastName" ->
           IF v = UNDEF THEN "Required"
           ELSE IF Len(v) < 1 THEN "Last name is required"
           ELSE IF Len(v) < 2 THEN "Last name must be at least 2 characters"
           ELSE NoError
      [] f = "gender" ->
           IF v \notin genderEnum THEN "Please select a gender" ELSE NoError
      [] f = "country" ->
           IF v = UNDEF THEN "Required"
           ELSE IF Len(v) < 1 THEN "Please select your residence country"
           ELSE NoError
      [] f = "email" ->
           IF v = UNDEF THEN "Required"
           ELSE IF Len(v) < 1 THEN "Email is required"
           ELSE IF ~IsEmail(v) THEN "Please enter a valid email address"
           ELSE NoError
      [] f = "phone" ->
           IF v = UNDEF THEN "Required"
           ELSE IF Len(v) < 1 THEN "Phone number is required"
           ELSE IF Len(v) < 10 THEN "Phone number must be at least 10 digits"
           ELSE NoError
      [] f = "acceptTerms" ->
           IF v # TRUE THEN "You must accept the terms and conditions to continue"
           ELSE NoError

FieldOrder == <<"firstName", "lastName", "gender", "country", "email", "phone", "acceptTerms">>

\* registrationSchema without the minimum length of the phone
registrationSchema_NoPhoneMin(data) ==
    [f \in {g \in Fields : /\ FieldIssue(g, data) # NoError
                           /\ FieldIssue(g, data) # "Phone number must be at least 10 digits"} |->
        FieldIssue(f, data)]

\* registrationSchema stopping at the first field that fails
registrationSchema_FirstOnly(data) ==
    LET failing == {i \in 1..7 : FieldIssue(FieldOrder[i], data) # NoError}
        first == {i \in failing : \A j \in failing : i <= j} IN
    [f \in {FieldOrder[i] : i \in first} |-> FieldIssue(f, data)]

\* registrationSchema: z.object validates every key and collects the issues of all
registrationSchema(data) ==
    [f \in {g \in Fields : FieldIssue(g, data) # NoError} |-> FieldIssue(f, data)]

IsValidRecord(obj) == DOMAIN obj = Fields /\ DOMAIN registrationSchema(obj) = {}

-----------------------------------------------------------------------------
(* JSON texts and localStorage                                             *)

\* JSON.stringify of an object: the keys whose value is undefined are left out
JSONStringify(obj) ==
    [kind |-> "object", props |-> [k \in {j \in DOMAIN obj : ~IsUndefined(obj, j)} |-> obj[k]]]

\* the text "null", and a text that is no JSON at all
NullText == [kind |-> "null"]
InvalidText == [kind |-> "invalid"]

\* JSON.parse throws a SyntaxError on a text that is no JSON
JSONParseThrows(text) == text.kind = "invalid"
JSONParse(text) == IF text.kind = "object" THEN [isNull |-> FALSE, props |-> text.props]
                   ELSE [isNull |-> TRUE]

getItem(st, key) == IF key \in DOMAIN st THEN <<st[key]>> ELSE <<>>
setItem(st, key, text) == [k \in (DOMAIN st) \cup {key} |-> IF k = key THEN text ELSE st[k]]

\* a removeItem that leaves the key where it is
removeItem_Noop(st, key) == st

\* localStorage.removeItem
removeItem(st, key) == [k \in (DOMAIN st) \ {key} |-> st[k]]

-----------------------------------------------------------------------------
(* HTTP client (lib/api/otp)                                               *)

\* what can become of a request: a 2xx response with a JSON body, a rejected
\* fetch, a response whose ok is false, a body response.json() cannot parse
Outcomes == {"ok", "network_error", "http_error", "invalid_body"}

\* the client without its check of response.ok
ApiThrows_IgnoresStatus(outcome) ==
    \/ outcome = "network_error"
    \/ outcome = "invalid_body"

\* sendOTPEmail, sendOTPPhone, verifyOTP and resendOTP reject on the same three
\* conditions: fetch rejects, !response.ok, response.json() rejects
ApiThrows(outcome) ==
    \/ outcome = "network_error"
    \/ outcome = "http_error"
    \/ outcome = "invalid_body"

sendOTPEmail(email) == [op |-> "fetch", path |-> "/send-otp-email", body |-> [email |-> email]]
sendOTPPhone(phone) == [op |-> "fetch", path |-> "/send-otp-phone", body |-> [phone |-> phone]]
resendOTP(method) == [op |-> "fetch", path |-> "/resend-otp", body |-> [method |-> method]]
\* registrationData is an object, or null (spreading null adds nothing)
verifyOTP(code, method, registrationData) ==
    [op |-> "fetch", path |-> "/register",
     body |-> IF registrationData.isNull THEN [code |-> code, method |-> method]
              ELSE Spread([code |-> code, method |-> method], registrationData.props)]

\* a request on the wire with what its continuation closed over: the method the
\* handler was invoked with, and whether the component that issued it is mounted
Request(kind, method) == [kind |-> kind, method |-> method, live |-> TRUE]

Orphan(r) == [r EXCEPT !.live = FALSE]
CountOf(B, r) == IF r \in DOMAIN B THEN B[r] ELSE 0
\* unmounting a page leaves its requests on the wire; their setState calls no longer act
OrphanAll(B) ==
    [o \in {Orphan(r) : r \in DOMAIN B} |-> CountOf(B, o) + CountOf(B, [o EXCEPT !.live = TRUE])]

-----------------------------------------------------------------------------
(* Calls on the environment, as recorded in ev                             *)

EvSetItem(key, text) == [op |-> "setItem", key |-> key, text |-> text]
EvSetItemThrows(key) == [op |-> "setItem.throws", key |-> key]
EvRemoveItem(key) == [op |-> "removeItem", key |-> key]
EvPush(path) == [op |-> "push", path |-> path]
EvPushThrows(path) == [op |-> "push.throws", path |-> path]
EvConsoleError(what) == [op |-> "console.error", what |-> what]
EvToastSuccess == [op |-> "toast.success"]
EvToastError(what) == [op |-> "toast.error", what |-> what]
EvPreventDefault == [op |-> "preventDefault"]
EvThrow == [op |-> "throw"]

Has(events, o) == \E i \in 1..Len(events) : events[i].op = o
Pos(events, o) == CHOOSE i \in 1..Len(events) : events[i].op = o

-----------------------------------------------------------------------------
(* State of the three controllers at mount                                 *)

NoErrors == [f \in {} |-> NoError]
NoKeys == [k \in {} |-> InvalidText]
EmptyOtp == <<EMPTY, EMPTY, EMPTY, EMPTY>>

\* useForm({ defaultValues: { acceptTerms: false } })
RegInitial == [errors |-> NoErrors, isSubmitting |-> FALSE, pending |-> <<>>]

\* the useState initial values of useOTPSend
SendInitial ==
    [selectedMethod |-> EMPTY, isLoading |-> FALSE, message |-> "",
     userEmail |-> EMPTY, userPhone |-> EMPTY]

\* the useState initial values of useOTPConfirm
ConfInitial ==
    [otp |-> EmptyOtp, isResending |-> FALSE, isVerifying |-> FALSE, otpMethod |-> EMAIL]

\* does the mount effect of useOTPSend end in its catch block: JSON.parse throws
\* on a text that is no JSON, data.email throws on null
SendLoadFails(st) ==
    LET item == getItem(st, "wynn_registration_data") IN
    /\ item # <<>>
    /\ \/ JSONParseThrows(item[1])
       \/ JSONParse(item[1]).isNull

\* SendMounted reading the key under another name than the registration step writes
SendMounted_OtherKey(st) ==
    LET item == getItem(st, "registration_data") IN
    IF item = <<>> \/ JSONParseThrows(item[1]) \/ JSONParse(item[1]).isNull THEN SendInitial
    ELSE LET data == JSONParse(item[1]).props IN
         [SendInitial EXCEPT !.userEmail = OrEmpty(data, "email"),
                             !.userPhone = OrEmpty(data, "phone")]

\* useOTPSend after its mount effect has read the registration data
SendMounted(st) ==
    LET item == getItem(st, "wynn_registration_data") IN
    IF item = <<>> \/ SendLoadFails(st) THEN SendInitial
    ELSE LET data == JSONParse(item[1]).props IN
         [SendInitial EXCEPT !.userEmail = OrEmpty(data, "email"),
                             !.userPhone = OrEmpty(data, "phone")]

\* useOTPConfirm after its mount effect has read otp_method
\* a mount effect that never reads otp_method
ConfMounted_IgnoresStorage(st) == ConfInitial

\* useOTPConfirm after its mount effect: if (method) setOtpMethod(method)
ConfMounted(st) ==
    LET method == getItem(st, "otp_method") IN
    IF method # <<>> /\ method[1] # EMPTY
    THEN [ConfInitial EXCEPT !.otpMethod = method[1]]
    ELSE ConfInitial

\* the Country Directory (lib/countries): the records PhoneNumberInput reads
\* code and dialCode of; FR stands for every dial code the formatter has no
\* template for
Countries ==
    {[code |-> "AE", dialCode |-> "+971", name |-> <<"U", "n", "i", "t", "e", "d", " ", "A", "r", "a", "b", " ", "E", "m", "i", "r", "a", "t", "e", "s">>],
     [code |-> "US", dialCode |-> "+1", name |-> <<"U", "n", "i", "t", "e", "d", " ", "S", "t", "a", "t", "e", "s">>],
     [code |-> "GB", dialCode |-> "+44", name |-> <<"U", "n", "i", "t", "e", "d", " ", "K", "i", "n", "g", "d", "o", "m">>],
     [code |-> "FR", dialCode |-> "+33", name |-> <<"F", "r", "a", "n", "c", "e">>]}

\* countries.find((c) => c.code === "AE") || countries[0]
DefaultCountry == CHOOSE c \in Countries : c.code = "AE"

\* the useState initial values of PhoneNumberInput, given its value prop
PhoneInitial(v) == [phoneNumber |-> v, selectedCountry |-> DefaultCountry, value |-> v]

\* no cell of the OTP widget has the focus
NoFocus == -1

\* the mount effect of OTPInput: inputRefs.current[0].focus() unless disabled
FocusAtMount(disabled) == IF disabled THEN NoFocus ELSE 0

\* the useState initial values of CountrySelector
SelectorInitial == [isOpen |-> FALSE, searchTerm |-> EMPTY]

SetPhone(r) ==
    /\ phoneNumber' = r.phoneNumber
    /\ selectedCountry' = r.selectedCountry
    /\ value' = r.value
    /\ isOpen' = SelectorInitial.isOpen
    /\ searchTerm' = SelectorInitial.searchTerm

EvMount(path) == [op |-> "mount", path |-> path]

MountEvents(path, st) ==
    <<EvMount(path)>> \o
    (IF path = "/otp-send" /\ SendLoadFails(st)
     THEN <<EvConsoleError("Failed to parse registration data:")>> ELSE <<>>)

SetReg(r) == errors' = r.errors /\ isSubmitting' = r.isSubmitting /\ pending' = r.pending
SetSend(r) ==
    /\ selectedMethod' = r.selectedMethod
    /\ isLoading' = r.isLoading
    /\ message' = r.message
    /\ userEmail' = r.userEmail
    /\ userPhone' = r.userPhone
SetConf(r) ==
    /\ otp' = r.otp
    /\ isResending' = r.isResending
    /\ isVerifying' = r.isVerifying
    /\ otpMethod' = r.otpMethod

\* the router shows a page: the page that was shown unmounts (its state is
\* gone), the new one mounts and runs its effect on the storage st
Show(path, st) ==
    /\ route' = path
    /\ SetReg(RegInitial)
    /\ SetSend(IF path = "/otp-send" THEN SendMounted(st) ELSE SendInitial)
    /\ SetConf(IF path = "/otp-confirm" THEN ConfMounted(st) ELSE ConfInitial)
    /\ SetPhone(PhoneInitial(EMPTY))
    /\ focus' = IF path = "/otp-confirm" THEN FocusAtMount(FALSE) ELSE NoFocus

\* no handler runs between the microtasks of a running handleSubmit
Idle == pending = <<>>

-----------------------------------------------------------------------------
(* Inputs                                                                  *)

Jo == <<"J", "o">>
Do == <<"D", "o">>
CountryAE == <<"a", "e">>
Email1 == <<"a", "@", "b", ".", "c", "o">>
Email2 == <<"c", "@", "d", ".", "i", "o">>
Phone1 == <<"1", "2", "3", "4", "5", "6", "7", "8", "9", "0">>
Phone2 == <<"(", "1", "2", "3", ")", " ", "-", " ", "4", "5", "6", "7">>
PhoneShort == <<"1", "2", "3", " ", "4", "5", "6", " ", "7">>

FormData(fn, ln, g, c, e, p, t) ==
    [firstName |-> fn, lastName |-> ln, gender |-> g, country |-> c,
     email |-> e, phone |-> p, acceptTerms |-> t]

Record1 == FormData(Jo, Do, GenderMale, CountryAE, Email1, Phone1, TRUE)
Record2 == FormData(Jo, Do, GenderMale, CountryAE, Email2, Phone2, TRUE)
\* the form as it is before anything is entered
Untouched == FormData(EMPTY, EMPTY, UNDEF, UNDEF, EMPTY, EMPTY, FALSE)
ShortPhone == FormData(Jo, Do, GenderMale, CountryAE, Email1, PhoneShort, TRUE)

\* the records submitted in the flow
Inputs == {Record1, Record2, Untouched, ShortPhone}

\* the records the validation is exercised on
FormInputs ==
    {FormData(fn, ln, g, c, e, p, t) :
        fn \in {UNDEF, EMPTY, <<"J">>, Jo},
        ln \in {EMPTY, <<"D">>, Do},
        g \in {UNDEF, <<"x">>, GenderMale},
        c \in {UNDEF, EMPTY, CountryAE},
        e \in {EMPTY, <<"a", "@", "b">>, <<".", "a", "@", "b", ".", "c", "o">>, Email1},
        p \in {EMPTY, PhoneShort, Phone1},
        t \in BOOLEAN}

MethodInputs == {EMPTY, EMAIL, PHONE}

\* what localStorage may hold when the application is opened
InitialRegTexts ==
    {InvalidText, NullText, JSONStringify([firstName |-> Jo]), JSONStringify([email |-> Email2])}
InitialMethodTexts == {PHONE, <<"x">>}

StorageOf(reg, method) ==
    [k \in (IF reg = <<>> THEN {} ELSE {"wynn_registration_data"}) \cup
           (IF method = <<>> THEN {} ELSE {"otp_method"}) |->
        IF k = "wynn_registration_data" THEN reg[1] ELSE method[1]]

InitialStorages ==
    {StorageOf(reg, method) :
        reg \in {<<>>} \cup {<<t>> : t \in InitialRegTexts},
        method \in {<<>>} \cup {<<m>> : m \in InitialMethodTexts}}

Pages == {"/", "/otp-send", "/otp-confirm"}

-----------------------------------------------------------------------------
(* Initial state and page loads                                            *)

Unmounted ==
    /\ errors = RegInitial.errors
    /\ isSubmitting = RegInitial.isSubmitting
    /\ pending = RegInitial.pending
    /\ selectedMethod = SendInitial.selectedMethod
    /\ isLoading = SendInitial.isLoading
    /\ message = SendInitial.message
    /\ userEmail = SendInitial.userEmail
    /\ userPhone = SendInitial.userPhone
    /\ otp = ConfInitial.otp
    /\ isResending = ConfInitial.isResending
    /\ isVerifying = ConfInitial.isVerifying
    /\ otpMethod = ConfInitial.otpMethod
    /\ phoneNumber = PhoneInitial(EMPTY).phoneNumber
    /\ selectedCountry = PhoneInitial(EMPTY).selectedCountry
    /\ value = PhoneInitial(EMPTY).value
    /\ isOpen = SelectorInitial.isOpen
    /\ searchTerm = SelectorInitial.searchTerm
    /\ focus = NoFocus

Init ==
    /\ route = "none"
    /\ storage \in InitialStorages
    /\ Unmounted
    /\ inflight = EmptyBag
    /\ act = [name |-> "init"]
    /\ ev = <<>>

\* the user opens the application on one of its pages
Load(path) ==
    /\ route = "none"
    /\ Show(path, storage)
    /\ UNCHANGED <<storage, inflight>>
    /\ act' = [name |-> "load"]
    /\ ev' = MountEvents(path, storage)

\* the Back links of the OTP pages: <Link href="/"> and <Link href="/otp-send">
BackTarget == IF route = "/otp-confirm" THEN "/otp-send" ELSE "/"

GoBack ==
    /\ route \in {"/otp-send", "/otp-confirm"}
    /\ Idle
    /\ Show(BackTarget, storage)
    /\ inflight' = OrphanAll(inflight)
    /\ UNCHANGED storage
    /\ act' = [name |-> "back"]
    /\ ev' = MountEvents(BackTarget, storage)

-----------------------------------------------------------------------------
(* Registration Step Controller (useRegistrationForm)                      *)

\* onSubmit without its try/catch
onSubmitEvents_NoCatch(data, storeOk, navOk) ==
    IF ~storeOk
    THEN <<EvSetItemThrows("wynn_registration_data"), EvThrow>>
    ELSE <<EvSetItem("wynn_registration_data", JSONStringify(data))>> \o
         (IF navOk THEN <<EvPush("/otp-send")>>
          ELSE <<EvPushThrows("/otp-send"), EvThrow>>)

\* onSubmit: what it calls, in order; a throwing call ends the try block
onSubmitEvents(data, storeOk, navOk) ==
    IF ~storeOk
    THEN <<EvSetItemThrows("wynn_registration_data"), EvConsoleError("Registration error:")>>
    ELSE <<EvSetItem("wynn_registration_data", JSONStringify(data))>> \o
         (IF navOk THEN <<EvPush("/otp-send")>>
          ELSE <<EvPushThrows("/otp-send"), EvConsoleError("Registration error:")>>)

\* the storage onSubmit leaves
onSubmitStorage(data, storeOk) ==
    IF storeOk THEN setItem(storage, "wynn_registration_data", JSONStringify(data)) ELSE storage

\* onSubmit(data), as handleSubmit calls it or as a caller of the hook does
onSubmit(data, storeOk, navOk) ==
    /\ storage' = onSubmitStorage(data, storeOk)
    /\ ev' = onSubmitEvents(data, storeOk, navOk)
    /\ IF storeOk /\ navOk
       THEN /\ Show("/otp-send", onSubmitStorage(data, storeOk))
            /\ inflight' = OrphanAll(inflight)
       ELSE /\ route' = route
            /\ UNCHANGED widgetVars
            /\ UNCHANGED <<sendVars, confVars, inflight>>

\* handleSubmit(onSubmit) of react-hook-form, up to its first await: the form
\* values are captured and isSubmitting is raised
SubmitBegin(data) ==
    /\ route = "/"
    /\ Idle
    /\ isSubmitting' = TRUE
    /\ pending' = <<data>>
    /\ UNCHANGED <<route, storage, errors, sendVars, confVars, inflight, widgetVars>>
    /\ act' = [name |-> "handleSubmit.begin"]
    /\ ev' = <<>>

\* handleSubmit(onSubmit) after the resolver has run: the errors are set and
\* nothing else happens, or onSubmit is called with the validated values
SubmitSettle(storeOk, navOk) ==
    /\ route = "/"
    /\ pending # <<>>
    /\ LET data == pending[1]
           issues == registrationSchema(data) IN
       IF DOMAIN issues # {}
       THEN /\ errors' = issues
            /\ isSubmitting' = FALSE
            /\ pending' = <<>>
            /\ UNCHANGED <<route, storage, sendVars, confVars, inflight, widgetVars>>
            /\ act' = [name |-> "handleSubmit", valid |-> FALSE]
            /\ ev' = <<>>
       ELSE /\ onSubmit(data, storeOk, navOk)
            /\ act' = [name |-> "handleSubmit", valid |-> TRUE]
            /\ IF storeOk /\ navOk THEN TRUE
               ELSE /\ errors' = NoErrors
                    /\ isSubmitting' = FALSE
                    /\ pending' = <<>>

\* onSubmit called directly: the hook returns it next to handleSubmit
OnSubmitDirect(data, storeOk, navOk) ==
    /\ route = "/"
    /\ Idle
    /\ onSubmit(data, storeOk, navOk)
    /\ act' = [name |-> "onSubmit"]
    /\ IF storeOk /\ navOk THEN TRUE ELSE UNCHANGED regVars

-----------------------------------------------------------------------------
(* OTP Send Controller (useOTPSend)                                        *)

handleMethodChange(method) ==
    /\ route = "/otp-send"
    /\ Idle
    /\ selectedMethod' = method
    /\ message' = ""
    /\ UNCHANGED <<route, storage, regVars, isLoading, userEmail, userPhone, confVars, inflight, widgetVars>>
    /\ act' = [name |-> "handleMethodChange"]
    /\ ev' = <<>>

\* the request handleNext issues for the selected method
SendRequest == IF selectedMethod = EMAIL THEN sendOTPEmail(userEmail) ELSE sendOTPPhone(userPhone)

\* handleNext without its check of the selection
NoMethodSelected_Never == FALSE

\* if (!selectedMethod)
NoMethodSelected == selectedMethod = EMPTY

\* handleNext up to its await: refuses without a method, else raises isLoading,
\* clears the message and issues the request
handleNext ==
    /\ route = "/otp-send"
    /\ Idle
    /\ IF NoMethodSelected
       THEN /\ message' = "Please select a method first"
            /\ UNCHANGED <<isLoading, inflight>>
            /\ act' = [name |-> "handleNext", refused |-> TRUE]
            /\ ev' = <<>>
       ELSE /\ BagCardinality(inflight) < MaxInFlight
            /\ isLoading' = TRUE
            /\ message' = ""
            /\ inflight' = inflight (+) SetToBag({Request("send", selectedMethod)})
            /\ act' = [name |-> "handleNext", refused |-> FALSE]
            /\ ev' = <<SendRequest>>
    /\ UNCHANGED <<route, storage, regVars, selectedMethod, userEmail, userPhone, confVars, widgetVars>>

\* the rest of handleNext pushing the router before it stores the method
SendSettleEvents_PushFirst(method, outcome, storeOk, navOk) ==
    IF ApiThrows(outcome) THEN <<EvConsoleError("Failed to send OTP:")>>
    ELSE IF ~navOk THEN <<EvPushThrows("/otp-confirm"), EvConsoleError("Failed to send OTP:")>>
    ELSE <<EvPush("/otp-confirm")>> \o
         (IF storeOk THEN <<EvSetItem("otp_method", method), EvToastSuccess>>
          ELSE <<EvSetItemThrows("otp_method"), EvConsoleError("Failed to send OTP:")>>)

\* what the rest of handleNext calls once the request has settled
SendSettleEvents(method, outcome, storeOk, navOk) ==
    IF ApiThrows(outcome) THEN <<EvConsoleError("Failed to send OTP:")>>
    ELSE IF ~storeOk THEN <<EvSetItemThrows("otp_method"), EvConsoleError("Failed to send OTP:")>>
    ELSE <<EvSetItem("otp_method", method), EvToastSuccess>> \o
         (IF navOk THEN <<EvPush("/otp-confirm")>>
          ELSE <<EvPushThrows("/otp-confirm"), EvConsoleError("Failed to send OTP:")>>)

\* a finally block of handleNext that leaves isLoading raised
LoadingAfterSettle_Keep(live, flag) == flag

\* finally { setIsLoading(false) }, when the page is still mounted
LoadingAfterSettle(live, flag) == IF live THEN FALSE ELSE flag

\* handleNext after its await: on success otp_method is stored, the success
\* toast is shown and the router is pushed; the catch block sets the retry
\* message; the finally block lowers isLoading
SendSettle(r, outcome, storeOk, navOk) ==
    /\ Idle
    /\ BagIn(r, inflight)
    /\ r.kind = "send"
    /\ LET rest == inflight (-) SetToBag({r})
           stored == ~ApiThrows(outcome) /\ storeOk
           pushed == stored /\ navOk
           st == IF stored THEN setItem(storage, "otp_method", r.method) ELSE storage
           events == SendSettleEvents(r.method, outcome, storeOk, navOk)
       IN  /\ storage' = st
           /\ act' = [name |-> "handleNext.settle", method |-> r.method,
                      outcome |-> outcome, live |-> r.live]
           /\ IF pushed /\ route # "/otp-confirm"
              THEN /\ Show("/otp-confirm", st)
                   /\ inflight' = OrphanAll(rest)
                   /\ ev' = events \o MountEvents("/otp-confirm", st)
              ELSE /\ route' = route
                   /\ UNCHANGED widgetVars
                   /\ inflight' = rest
                   /\ ev' = events
                   /\ UNCHANGED <<regVars, confVars, selectedMethod, userEmail, userPhone>>
                   /\ isLoading' = LoadingAfterSettle(r.live, isLoading)
                   /\ message' = IF r.live /\ ~pushed
                                 THEN "Failed to send OTP. Please try again." ELSE message

-----------------------------------------------------------------------------
(* OTP Confirm Controller (useOTPConfirm)                                  *)

RECURSIVE Join(_)
\* otp.join("")
Join(cells) == IF cells = <<>> THEN EMPTY ELSE Head(cells) \o Join(Tail(cells))

\* otp.every(digit => digit !== "")
isCodeComplete == \A i \in 1..Len(otp) : otp[i] # EMPTY

\* the arrays handleOTPChange is called with: empty, partial, complete, and
\* arrays whose cells are not single characters or that do not have four cells
OtpInputs ==
    {EmptyOtp,
     <<<<"1">>, <<"2">>, EMPTY, EMPTY>>,
     <<<<"1">>, EMPTY, EMPTY, <<"4">>>>,
     <<<<"1">>, <<"2">>, <<"3">>, <<"4">>>>,
     <<<<"1", "2">>, <<"3", "4">>, EMPTY, EMPTY>>,
     <<<<"1", "2">>, <<"3">>, <<"4">>, <<"5">>>>,
     <<<<"1", "2">>, <<"3", "4">>>>}

handleOTPChange(newOtp) ==
    /\ route = "/otp-confirm"
    /\ Idle
    /\ otp' = newOtp
    /\ UNCHANGED <<route, storage, regVars, sendVars, isResending, isVerifying, otpMethod, inflight, widgetVars>>
    /\ act' = [name |-> "handleOTPChange"]
    /\ ev' = <<>>

\* handleResendCode up to its await
handleResendCode ==
    /\ route = "/otp-confirm"
    /\ Idle
    /\ BagCardinality(inflight) < MaxInFlight
    /\ isResending' = TRUE
    /\ inflight' = inflight (+) SetToBag({Request("resend", otpMethod)})
    /\ UNCHANGED <<route, storage, regVars, sendVars, otp, isVerifying, otpMethod, widgetVars>>
    /\ act' = [name |-> "handleResendCode"]
    /\ ev' = <<resendOTP(otpMethod)>>

\* a finally block lowering its flag, when the component is still mounted
FlagAfterSettle_Keep(live, flag) == flag

\* setIsResending(false) / setIsVerifying(false) in the finally blocks
FlagAfterSettle(live, flag) == IF live THEN FALSE ELSE flag

\* handleResendCode clearing the buffer in its catch block too
ResendSettleOtp_ClearAlways(live, outcome, cells) == IF live THEN EmptyOtp ELSE cells

\* the buffer after handleResendCode: setOtp(["", "", "", ""]) in the try block only
ResendSettleOtp(live, outcome, cells) ==
    IF live /\ ~ApiThrows(outcome) THEN EmptyOtp ELSE cells

\* handleResendCode after its await
ResendSettle(r, outcome) ==
    /\ Idle
    /\ BagIn(r, inflight)
    /\ r.kind = "resend"
    /\ inflight' = inflight (-) SetToBag({r})
    /\ otp' = ResendSettleOtp(r.live, outcome, otp)
    /\ isResending' = FlagAfterSettle(r.live, isResending)
    /\ UNCHANGED <<route, storage, regVars, sendVars, isVerifying, otpMethod, widgetVars>>
    /\ act' = [name |-> "handleResendCode.settle", outcome |-> outcome, live |-> r.live]
    /\ ev' = IF ApiThrows(outcome)
             THEN <<EvConsoleError("Failed to resend code:"),
                    EvToastError("Failed to resend code. Please try again.")>>
             ELSE <<EvToastSuccess>>

\* does the inner try of handleSubmit end in its catch block
RegistrationParseFails ==
    LET item == getItem(storage, "wynn_registration_data") IN
    item # <<>> /\ JSONParseThrows(item[1])

\* the registrationData handleSubmit passes to verifyOTP: {} unless the stored
\* text parses
RegistrationData ==
    LET item == getItem(storage, "wynn_registration_data") IN
    IF item = <<>> \/ JSONParseThrows(item[1])
    THEN [isNull |-> FALSE, props |-> NoKeys]
    ELSE JSONParse(item[1])

\* handleSubmit of useOTPConfirm up to its await: returns unless the joined
\* code has length 4, else raises isVerifying, reads the registration data and
\* issues the verify request
handleSubmit ==
    /\ route = "/otp-confirm"
    /\ Idle
    /\ IF Len(Join(otp)) # 4
       THEN /\ UNCHANGED <<isVerifying, inflight>>
            /\ act' = [name |-> "handleSubmit.otp", issued |-> FALSE]
            /\ ev' = <<EvPreventDefault>>
       ELSE /\ BagCardinality(inflight) < MaxInFlight
            /\ isVerifying' = TRUE
            /\ inflight' = inflight (+) SetToBag({Request("verify", otpMethod)})
            /\ act' = [name |-> "handleSubmit.otp", issued |-> TRUE]
            /\ ev' = <<EvPreventDefault>> \o
                     (IF RegistrationParseFails
                      THEN <<EvConsoleError("Failed to parse registration data:")>>
                      ELSE <<>>) \o
                     <<verifyOTP(Join(otp), otpMethod, RegistrationData)>>
    /\ UNCHANGED <<route, storage, regVars, sendVars, otp, isResending, otpMethod, widgetVars>>

\* handleSubmit leaving the buffer as it is in its catch block
VerifySettleOtp_KeepOnFailure(live, outcome, cells) ==
    IF live /\ ~ApiThrows(outcome) THEN EmptyOtp ELSE cells

\* the buffer after handleSubmit: setOtp(["", "", "", ""]) in the try block and
\* in the catch block
VerifySettleOtp(live, outcome, cells) == IF live THEN EmptyOtp ELSE cells

\* a verify continuation that removes the keys whatever the outcome
VerifySettleStorage_ClearsAlways(st, outcome) ==
    removeItem(removeItem(st, "otp_method"), "wynn_registration_data")

\* localStorage.removeItem("otp_method"); removeItem("wynn_registration_data"),
\* which the try block reaches only when verifyOTP has resolved
VerifySettleStorage(st, outcome) ==
    IF ApiThrows(outcome) THEN st
    ELSE removeItem(removeItem(st, "otp_method"), "wynn_registration_data")

\* handleSubmit of useOTPConfirm after its await
VerifySettle(r, outcome) ==
    /\ Idle
    /\ BagIn(r, inflight)
    /\ r.kind = "verify"
    /\ inflight' = inflight (-) SetToBag({r})
    /\ storage' = VerifySettleStorage(storage, outcome)
    /\ otp' = VerifySettleOtp(r.live, outcome, otp)
    /\ isVerifying' = FlagAfterSettle(r.live, isVerifying)
    /\ UNCHANGED <<route, regVars, sendVars, isResending, otpMethod, widgetVars>>
    /\ act' = [name |-> "handleSubmit.settle", outcome |-> outcome, live |-> r.live]
    /\ ev' = IF ApiThrows(outcome)
             THEN <<EvConsoleError("Failed to complete registration:"),
                    EvToastError("Registration failed. Please try again.")>>
             ELSE <<EvToastSuccess, EvRemoveItem("otp_method"),
                    EvRemoveItem("wynn_registration_data")>>

-----------------------------------------------------------------------------
(* OTP Digit Input (OTPInput), as OTPConfirmPage renders it:               *)
(* value = otp, onChange = handleOTPChange, disabled = isVerifying         *)

Min(a, b) == IF a <= b THEN a ELSE b

\* String.prototype.slice(from, to), for 0 <= from <= to
Slice(s, from, to) == SubSeq(s, from + 1, Min(to, Len(s)))

\* /\d/.test(c)
IsDigit(c) == c \in Digit

EvOnChange(v) == [op |-> "onChange", value |-> v]
EvOnCountryChange(country) == [op |-> "onCountryChange", country |-> country]
EvFocus(index) == [op |-> "focus", index |-> index]

\* e.target.value of a cell after an edit: cleared, one character (the input
\* is of type text: a digit or not), more than one character
CellValues == {EMPTY, <<"1">>, <<"7">>, <<"a">>, <<"1", "2">>}

\* e.key of the keydown events
Keys == {"Backspace", "ArrowLeft"}

\* e.clipboardData.getData("text")
PasteTexts ==
    {EMPTY,
     <<"1", "2">>,
     <<"1", "2", "3", "4">>,
     <<"1", "a">>,
     <<"a", "1">>,
     <<"a", "b", "c", "d">>,
     <<"1", "a", "2", "b", "3", "c", "4", "d">>,
     <<"1", "2", "3", "4", "5", "6", "7", "8", "9">>}

\* the inputs can be edited: the page is shown and disabled (isVerifying) is false
OtpInputEnabled == route = "/otp-confirm" /\ Idle /\ ~isVerifying

\* the user clicks a cell
FocusCell(index) ==
    /\ OtpInputEnabled
    /\ focus # index
    /\ focus' = index
    /\ UNCHANGED <<route, storage, regVars, sendVars, confVars, inflight, phoneVars>>
    /\ act' = [name |-> "focus", index |-> index]
    /\ ev' = <<>>

\* what handleInputChange(index, inputValue) does to the buffer, calls, and
\* does to the focus
InputChangeOtp_AcceptsLong(cells, index, inputValue) ==
    [cells EXCEPT ![index + 1] = inputValue]

\* if (inputValue.length > 1) return; newOtp[index] = inputValue
InputChangeOtp(cells, index, inputValue) ==
    IF Len(inputValue) > 1 THEN cells ELSE [cells EXCEPT ![index + 1] = inputValue]

InputChangeEvents(cells, index, inputValue) ==
    IF Len(inputValue) > 1 THEN <<>>
    ELSE <<EvOnChange(InputChangeOtp(cells, index, inputValue))>> \o
         (IF inputValue # EMPTY /\ index < 3 THEN <<EvFocus(index + 1)>> ELSE <<>>)

InputChangeFocus(index, inputValue, current) ==
    IF Len(inputValue) <= 1 /\ inputValue # EMPTY /\ index < 3 THEN index + 1 ELSE current

\* the change event of the cell that has the focus
handleInputChange(index, inputValue) ==
    /\ OtpInputEnabled
    /\ focus = index
    /\ inputValue # otp[index + 1]
    /\ otp' = InputChangeOtp(otp, index, inputValue)
    /\ focus' = InputChangeFocus(index, inputValue, focus)
    /\ UNCHANGED <<route, storage, regVars, sendVars, isResending, isVerifying, otpMethod,
                   inflight, phoneVars>>
    /\ act' = [name |-> "handleInputChange", index |-> index, inputValue |-> inputValue]
    /\ ev' = InputChangeEvents(otp, index, inputValue)

\* handleKeyDown retreating from a cell that holds a character too
KeyDownRetreats_FromFullCell(cells, index, key) == key = "Backspace" /\ index > 0

\* e.key === "Backspace" && !value[index] && index > 0
KeyDownRetreats(cells, index, key) ==
    key = "Backspace" /\ cells[index + 1] = EMPTY /\ index > 0

\* the keydown event of the cell that has the focus
handleKeyDown(index, key) ==
    /\ OtpInputEnabled
    /\ focus = index
    /\ focus' = IF KeyDownRetreats(otp, index, key) THEN index - 1 ELSE focus
    /\ UNCHANGED <<route, storage, regVars, sendVars, confVars, inflight, phoneVars>>
    /\ act' = [name |-> "handleKeyDown", index |-> index, key |-> key]
    /\ ev' = IF KeyDownRetreats(otp, index, key) THEN <<EvFocus(index - 1)>> ELSE <<>>

\* handlePaste: the array it passes to onChange
handlePasteOtp(text) ==
    LET pastedData == Slice(text, 0, 4) IN
    [i \in 1..4 |-> IF i <= Len(pastedData) /\ IsDigit(pastedData[i])
                    THEN <<pastedData[i]>> ELSE EMPTY]

\* handlePaste: Math.min(pastedData.length, 3)
handlePasteFocus(text) == Min(Len(Slice(text, 0, 4)), 3)

\* what the browser makes of a paste no handler has cancelled: it inserts the
\* text, as far as maxLength={1} leaves room for it (the cell is empty or its
\* content is selected), and the cell's change event follows
DefaultPasteValue(cell, text, selected) ==
    IF text # EMPTY /\ (cell = EMPTY \/ selected) THEN <<text[1]>> ELSE cell

\* a paste event on the cell that has the focus: onPaste is handlePaste for
\* index 0 and undefined for the other cells
Paste(index, text, selected) ==
    /\ OtpInputEnabled
    /\ focus = index
    /\ IF index = 0
       THEN /\ otp' = handlePasteOtp(text)
            /\ focus' = handlePasteFocus(text)
            /\ ev' = <<EvPreventDefault, EvOnChange(handlePasteOtp(text)),
                       EvFocus(handlePasteFocus(text))>>
       ELSE LET inputValue == DefaultPasteValue(otp[index + 1], text, selected) IN
            IF inputValue = otp[index + 1]
            THEN /\ UNCHANGED <<otp, focus>>
                 /\ ev' = <<>>
            ELSE /\ otp' = InputChangeOtp(otp, index, inputValue)
                 /\ focus' = InputChangeFocus(index, inputValue, focus)
                 /\ ev' = InputChangeEvents(otp, index, inputValue)
    /\ UNCHANGED <<route, storage, regVars, sendVars, isResending, isVerifying, otpMethod,
                   inflight, phoneVars>>
    /\ act' = [name |-> "paste", index |-> index, text |-> text]

-----------------------------------------------------------------------------
(* Phone Number Input (PhoneNumberInput), as ContactDetailsSection renders *)
(* it: value = field.value, onChange = field.onChange                      *)

\* the formatter leaving the non-digits where they are
StripNonDigits_Identity(v) == v

\* value.replace(/\D/g, "")
StripNonDigits(v) == SelectSeq(v, IsDigit)

\* String.prototype.slice(from)
SliceFrom(s, from) == SubSeq(s, from + 1, Len(s))

formatPhoneNumber(v, countryCode) ==
    LET digits == StripNonDigits(v) IN
    IF countryCode = "+1"
    THEN IF Len(digits) <= 3 THEN digits
         ELSE IF Len(digits) <= 6
         THEN <<"(">> \o Slice(digits, 0, 3) \o <<")", " ">> \o SliceFrom(digits, 3)
         ELSE <<"(">> \o Slice(digits, 0, 3) \o <<")", " ">> \o Slice(digits, 3, 6)
              \o <<"-">> \o Slice(digits, 6, 10)
    ELSE IF countryCode = "+44"
    THEN IF Len(digits) <= 4 THEN digits
         ELSE IF Len(digits) <= 7
         THEN Slice(digits, 0, 4) \o <<" ">> \o SliceFrom(digits, 4)
         ELSE Slice(digits, 0, 4) \o <<" ">> \o Slice(digits, 4, 7)
              \o <<" ">> \o Slice(digits, 7, 11)
    ELSE IF countryCode = "+971"
    THEN IF Len(digits) <= 3 THEN digits
         ELSE IF Len(digits) <= 7
         THEN <<"(">> \o Slice(digits, 0, 3) \o <<")", " ", "-", " ">> \o SliceFrom(digits, 3)
         ELSE <<"(">> \o Slice(digits, 0, 3) \o <<")", " ", "-", " ">> \o Slice(digits, 3, 7)
    ELSE IF Len(digits) <= 3 THEN digits
         ELSE IF Len(digits) <= 6
         THEN Slice(digits, 0, 3) \o <<" ">> \o SliceFrom(digits, 3)
         ELSE Slice(digits, 0, 3) \o <<" ">> \o Slice(digits, 3, 6)
              \o <<" ">> \o Slice(digits, 6, 10)

\* maxLength={20} of the input
maxLength == 20

\* the keys the user types into the input
PhoneKeys == {"1", "a"}

\* the texts the user pastes into the input
PhonePastes ==
    {<<"9", "8", "7", "-", "6", "5", "4", "3", "2", "1", "0", "9", "8", "7">>,
     <<"+", "1", " ", "(", "2", "b", "3", ")">>}

\* e.target.value after the user has typed a key at the end of the text, deleted
\* its last character, or pasted over the whole text
PhoneEdits(current) ==
    {Slice(current \o <<k>>, 0, maxLength) : k \in PhoneKeys}
    \cup {Slice(text, 0, maxLength) : text \in PhonePastes}
    \cup (IF current = EMPTY THEN {} ELSE {SubSeq(current, 1, Len(current) - 1)})

\* the values a parent may pass of its own accord
ValueInputs == {EMPTY, <<"1", "2", "3", "4", "5", "6", "7">>}

PhoneInputShown == route = "/" /\ Idle

\* handlePhoneChange: the text is formatted for the selected country, kept and
\* passed to onChange; the Controller passes it back as the value prop
handlePhoneChange(raw) ==
    /\ PhoneInputShown
    /\ LET formatted == formatPhoneNumber(raw, selectedCountry.dialCode) IN
       /\ phoneNumber' = formatted
       /\ value' = formatted
       /\ ev' = <<EvOnChange(formatted)>>
    /\ UNCHANGED <<route, storage, regVars, sendVars, confVars, inflight, selectedCountry, focus,
                   isOpen, searchTerm>>
    /\ act' = [name |-> "handlePhoneChange", raw |-> raw, dialCode |-> selectedCountry.dialCode]

\* handleCountryChange keeping the text that was entered
handleCountryChange_KeepsNumber(country, notify) ==
    /\ PhoneInputShown
    /\ selectedCountry' = country
    /\ ev' = (IF notify THEN <<EvOnCountryChange(country)>> ELSE <<>>)
    /\ UNCHANGED <<route, storage, regVars, sendVars, confVars, inflight, focus,
                   phoneNumber, value>>
    /\ act' = [name |-> "handleCountryChange", country |-> country, notify |-> notify,
               prior |-> phoneNumber]

\* handleCountryChange, the onCountryChange the CountrySelector is given: the
\* parent's onCountryChange is called if the parent has passed it (notify).
\* The selector's own state is set by handleCountrySelect, which calls it
handleCountryChange(country, notify) ==
    /\ PhoneInputShown
    /\ selectedCountry' = country
    /\ phoneNumber' = EMPTY
    /\ value' = EMPTY
    /\ ev' = (IF notify THEN <<EvOnCountryChange(country)>> ELSE <<>>) \o <<EvOnChange(EMPTY)>>
    /\ UNCHANGED <<route, storage, regVars, sendVars, confVars, inflight, focus>>
    /\ act' = [name |-> "handleCountryChange", country |-> country, notify |-> notify,
               prior |-> phoneNumber]

\* the parent passes another value: the effect on [value] copies it
ValueChange(v) ==
    /\ PhoneInputShown
    /\ v # value
    /\ value' = v
    /\ phoneNumber' = v
    /\ UNCHANGED <<route, storage, regVars, sendVars, confVars, inflight, selectedCountry, focus,
                   isOpen, searchTerm>>
    /\ act' = [name |-> "value"]
    /\ ev' = <<>>

-----------------------------------------------------------------------------
(* Country Selector (CountrySelector), as PhoneNumberInput renders it:     *)
(* onCountryChange = handleCountryChange                                   *)

\* the characters of the directory's code and dialCode texts
Chars(text) ==
    CASE text = "AE" -> <<"A", "E">>
      [] text = "US" -> <<"U", "S">>
      [] text = "GB" -> <<"G", "B">>
      [] text = "FR" -> <<"F", "R">>
      [] text = "+971" -> <<"+", "9", "7", "1">>
      [] text = "+1" -> <<"+", "1">>
      [] text = "+44" -> <<"+", "4", "4">>
      [] text = "+33" -> <<"+", "3", "3">>

\* String.prototype.toLowerCase, on the letters of the directory and the terms
LowerOf(c) ==
    CASE c = "A" -> "a" [] c = "B" -> "b" [] c = "E" -> "e" [] c = "F" -> "f"
      [] c = "G" -> "g" [] c = "K" -> "k" [] c = "R" -> "r" [] c = "S" -> "s"
      [] c = "U" -> "u" [] OTHER -> c

toLowerCase(s) == [i \in 1..Len(s) |-> LowerOf(s[i])]

\* String.prototype.includes
includes(s, part) ==
    \E i \in 0..(Len(s) - Len(part)) : SubSeq(s, i + 1, i + Len(part)) = part

\* the rows the panel shows
filteredCountries(term) ==
    {country \in Countries :
        \/ includes(toLowerCase(country.name), toLowerCase(term))
        \/ includes(Chars(country.dialCode), term)
        \/ includes(toLowerCase(Chars(country.code)), toLowerCase(term))}

\* what the user types or pastes into the search box
SearchTerms == {EMPTY, <<"u", "n">>, <<"+", "1">>, <<"f", "r">>, <<"z">>}

\* where a pointer-down lands
Targets == {"outside", "panel", "trigger"}

\* a selection that leaves the term in the search box
SelectorAfterSelect_KeepsTerm(term) == [isOpen |-> FALSE, searchTerm |-> term]

\* handleCountrySelect: setIsOpen(false); setSearchTerm("")
SelectorAfterSelect(term) == [isOpen |-> FALSE, searchTerm |-> EMPTY]

\* handleClickOutside: setIsOpen(false); setSearchTerm("")
SelectorAfterOutside(term) == [isOpen |-> FALSE, searchTerm |-> EMPTY]

\* toggleDropdown: setIsOpen(!isOpen); a click on the trigger
toggleDropdown ==
    /\ PhoneInputShown
    /\ isOpen' = ~isOpen
    /\ UNCHANGED <<route, storage, regVars, sendVars, confVars, inflight, phoneNumber,
                   selectedCountry, value, searchTerm, focus>>
    /\ act' = [name |-> "toggleDropdown"]
    /\ ev' = <<>>

\* the change event of the search box, which the open panel renders
setSearchTerm(term) ==
    /\ PhoneInputShown
    /\ isOpen
    /\ term # searchTerm
    /\ searchTerm' = term
    /\ UNCHANGED <<route, storage, regVars, sendVars, confVars, inflight, phoneNumber,
                   selectedCountry, value, isOpen, focus>>
    /\ act' = [name |-> "setSearchTerm", term |-> term]
    /\ ev' = <<>>

\* handleCountrySelect: a click on one of the rows shown calls onCountryChange,
\* which is PhoneNumberInput's handleCountryChange, closes the panel and
\* empties the search box
handleCountrySelect(country, notify) ==
    /\ isOpen
    /\ country \in filteredCountries(searchTerm)
    /\ handleCountryChange(country, notify)
    /\ isOpen' = SelectorAfterSelect(searchTerm).isOpen
    /\ searchTerm' = SelectorAfterSelect(searchTerm).searchTerm

\* handleClickOutside, the mousedown listener of the document while the panel
\* is open: a target inside the trigger or the panel changes nothing
handleClickOutside(target) ==
    /\ PhoneInputShown
    /\ isOpen
    /\ isOpen' = IF target = "outside" THEN SelectorAfterOutside(searchTerm).isOpen ELSE isOpen
    /\ searchTerm' = IF target = "outside" THEN SelectorAfterOutside(searchTerm).searchTerm
                     ELSE searchTerm
    /\ UNCHANGED <<route, storage, regVars, sendVars, confVars, inflight, phoneNumber,
                   selectedCountry, value, focus>>
    /\ act' = [name |-> "handleClickOutside", target |-> target, term |-> searchTerm]
    /\ ev' = <<>>

-----------------------------------------------------------------------------
(* Specifications                                                          *)

Next ==
    \/ \E path \in Pages : Load(path)
    \/ GoBack
    \/ \E data \in Inputs : SubmitBegin(data)
    \/ \E storeOk \in BOOLEAN, navOk \in BOOLEAN : SubmitSettle(storeOk, navOk)
    \/ \E data \in Inputs, storeOk \in BOOLEAN, navOk \in BOOLEAN :
          OnSubmitDirect(data, storeOk, navOk)
    \/ \E method \in MethodInputs : handleMethodChange(method)
    \/ handleNext
    \/ \E r \in DOMAIN inflight, outcome \in Outcomes, storeOk \in BOOLEAN, navOk \in BOOLEAN :
          SendSettle(r, outcome, storeOk, navOk)
    \/ \E newOtp \in OtpInputs : handleOTPChange(newOtp)
    \/ handleResendCode
    \/ \E r \in DOMAIN inflight, outcome \in Outcomes : ResendSettle(r, outcome)
    \/ handleSubmit
    \/ \E r \in DOMAIN inflight, outcome \in Outcomes : VerifySettle(r, outcome)

Spec == Init /\ [][Next]_vars

\* the registration page alone, opened on an empty storage, in the middle of
\* its first handleSubmit: the values captured range over FormInputs
InitForm ==
    /\ route = "/"
    /\ storage = NoKeys
    /\ errors = RegInitial.errors
    /\ isSubmitting = TRUE
    /\ pending \in {<<data>> : data \in FormInputs}
    /\ selectedMethod = SendInitial.selectedMethod
    /\ isLoading = SendInitial.isLoading
    /\ message = SendInitial.message
    /\ userEmail = SendInitial.userEmail
    /\ userPhone = SendInitial.userPhone
    /\ otp = ConfInitial.otp
    /\ isResending = ConfInitial.isResending
    /\ isVerifying = ConfInitial.isVerifying
    /\ otpMethod = ConfInitial.otpMethod
    /\ phoneNumber = PhoneInitial(EMPTY).phoneNumber
    /\ selectedCountry = PhoneInitial(EMPTY).selectedCountry
    /\ value = PhoneInitial(EMPTY).value
    /\ isOpen = SelectorInitial.isOpen
    /\ searchTerm = SelectorInitial.searchTerm
    /\ focus = NoFocus
    /\ inflight = EmptyBag
    /\ act = [name |-> "handleSubmit.begin"]
    /\ ev = <<>>

NextForm ==
    \/ \E storeOk \in BOOLEAN, navOk \in BOOLEAN : SubmitSettle(storeOk, navOk)
    \/ \E data \in Inputs : SubmitBegin(data)
    \/ \E data \in Inputs, storeOk \in BOOLEAN, navOk \in BOOLEAN :
          OnSubmitDirect(data, storeOk, navOk)
    \/ GoBack

SpecForm == InitForm /\ [][NextForm]_vars

\* the confirmation page just loaded on an empty storage, and its OTP widget
\* under the user's clicks, keys and pastes
InitOtpInput ==
    /\ route = "/otp-confirm"
    /\ storage = NoKeys
    /\ errors = RegInitial.errors
    /\ isSubmitting = RegInitial.isSubmitting
    /\ pending = RegInitial.pending
    /\ selectedMethod = SendInitial.selectedMethod
    /\ isLoading = SendInitial.isLoading
    /\ message = SendInitial.message
    /\ userEmail = SendInitial.userEmail
    /\ userPhone = SendInitial.userPhone
    /\ otp = ConfMounted(storage).otp
    /\ isResending = ConfMounted(storage).isResending
    /\ isVerifying = ConfMounted(storage).isVerifying
    /\ otpMethod = ConfMounted(storage).otpMethod
    /\ phoneNumber = PhoneInitial(EMPTY).phoneNumber
    /\ selectedCountry = PhoneInitial(EMPTY).selectedCountry
    /\ value = PhoneInitial(EMPTY).value
    /\ isOpen = SelectorInitial.isOpen
    /\ searchTerm = SelectorInitial.searchTerm
    /\ focus = FocusAtMount(FALSE)
    /\ inflight = EmptyBag
    /\ act = [name |-> "load"]
    /\ ev = MountEvents("/otp-confirm", storage)

NextOtpInput ==
    \/ \E index \in 0..3 : FocusCell(index)
    \/ \E index \in 0..3, inputValue \in CellValues : handleInputChange(index, inputValue)
    \/ \E index \in 0..3, key \in Keys : handleKeyDown(index, key)
    \/ \E index \in 0..3, text \in PasteTexts, selected \in BOOLEAN : Paste(index, text, selected)

SpecOtpInput == InitOtpInput /\ [][NextOtpInput]_vars

\* the registration page just loaded on an empty storage, and its phone
\* widget under the user's keys, pastes and country selections
InitPhone ==
    /\ route = "/"
    /\ storage = NoKeys
    /\ errors = RegInitial.errors
    /\ isSubmitting = RegInitial.isSubmitting
    /\ pending = RegInitial.pending
    /\ selectedMethod = SendInitial.selectedMethod
    /\ isLoading = SendInitial.isLoading
    /\ message = SendInitial.message
    /\ userEmail = SendInitial.userEmail
    /\ userPhone = SendInitial.userPhone
    /\ otp = ConfInitial.otp
    /\ isResending = ConfInitial.isResending
    /\ isVerifying = ConfInitial.isVerifying
    /\ otpMethod = ConfInitial.otpMethod
    /\ phoneNumber = PhoneInitial(EMPTY).phoneNumber
    /\ selectedCountry = PhoneInitial(EMPTY).selectedCountry
    /\ value = PhoneInitial(EMPTY).value
    /\ isOpen = SelectorInitial.isOpen
    /\ searchTerm = SelectorInitial.searchTerm
    /\ focus = NoFocus
    /\ inflight = EmptyBag
    /\ act = [name |-> "load"]
    /\ ev = MountEvents("/", storage)

NextPhone ==
    \/ \E raw \in PhoneEdits(phoneNumber) : handlePhoneChange(raw)
    \/ toggleDropdown
    \/ \E term \in SearchTerms : setSearchTerm(term)
    \/ \E country \in Countries, notify \in BOOLEAN : handleCountrySelect(country, notify)
    \/ \E target \in Targets : handleClickOutside(target)
    \/ \E v \in ValueInputs : ValueChange(v)

SpecPhone == InitPhone /\ [][NextPhone]_vars

-----------------------------------------------------------------------------
(* The pages, driven through their controls only                           *)

\* OTPMethodSelector: both radios carry disabled={isLoading}
RadiosDisabled == isLoading

\* OTPSendPage, Next: disabled={!selectedMethod || isLoading}
SendNextDisabled == selectedMethod = EMPTY \/ isLoading

\* OTPConfirmPage, Next: disabled={!isCodeComplete || isVerifying}
ConfirmNextDisabled == ~isCodeComplete \/ isVerifying

\* ResendCode renders its button only when isResending is false
ResendShown == ~isResending

\* the arrays the digit cells can hand to handleOTPChange in one event
PageOtps ==
    {EmptyOtp,
     <<<<"1">>, <<"2">>, EMPTY, EMPTY>>,
     <<<<"1">>, <<"2">>, <<"3">>, <<"4">>>>}

\* the user picks a radio that is not checked
SelectMethod(method) == ~RadiosDisabled /\ method # selectedMethod /\ handleMethodChange(method)

ClickSendNext == ~SendNextDisabled /\ handleNext

\* typing and pasting in the cells, which carry disabled={isVerifying}
EditCells(newOtp) == OtpInputEnabled /\ newOtp # otp /\ handleOTPChange(newOtp)

ClickResend == ResendShown /\ handleResendCode

ClickConfirmNext == ~ConfirmNextDisabled /\ handleSubmit

\* the storages the application is opened on
PageStorages == {NoKeys, StorageOf(<<JSONStringify([email |-> Email2])>>, <<PHONE>>)}

InitPage ==
    /\ route = "none"
    /\ storage \in PageStorages
    /\ Unmounted
    /\ inflight = EmptyBag
    /\ act = [name |-> "init"]
    /\ ev = <<>>

NextPage ==
    \/ \E path \in Pages : Load(path)
    \/ GoBack
    \/ \E data \in {Record1, Untouched} : SubmitBegin(data)
    \/ \E storeOk \in BOOLEAN, navOk \in BOOLEAN : SubmitSettle(storeOk, navOk)
    \/ \E method \in {EMAIL, PHONE} : SelectMethod(method)
    \/ ClickSendNext
    \/ \E r \in DOMAIN inflight, outcome \in Outcomes, storeOk \in BOOLEAN, navOk \in BOOLEAN :
          SendSettle(r, outcome, storeOk, navOk)
    \/ \E newOtp \in PageOtps : EditCells(newOtp)
    \/ ClickResend
    \/ \E r \in DOMAIN inflight, outcome \in Outcomes : ResendSettle(r, outcome)
    \/ ClickConfirmNext
    \/ \E r \in DOMAIN inflight, outcome \in Outcomes : VerifySettle(r, outcome)

SpecPage == InitPage /\ [][NextPage]_vars

\* the OTP controllers under every sequence of calls, with every request that
\* has been issued settling in the end
Fairness ==
    /\ WF_vars(\E r \in DOMAIN inflight, outcome \in Outcomes, storeOk \in BOOLEAN,
                  navOk \in BOOLEAN : SendSettle(r, outcome, storeOk, navOk))
    /\ WF_vars(\E r \in DOMAIN inflight, outcome \in Outcomes : ResendSettle(r, outcome))
    /\ WF_vars(\E r \in DOMAIN inflight, outcome \in Outcomes : VerifySettle(r, outcome))

\* the application opened on the storage a completed registration step and a
\* sent code have left
InitLive ==
    /\ route = "none"
    /\ storage = StorageOf(<<JSONStringify([email |-> Email2])>>, <<PHONE>>)
    /\ Unmounted
    /\ inflight = EmptyBag
    /\ act = [name |-> "init"]
    /\ ev = <<>>

NextLive ==
    \/ \E path \in Pages : Load(path)
    \/ GoBack
    \/ \E method \in {EMPTY, EMAIL} : handleMethodChange(method)
    \/ handleNext
    \/ \E r \in DOMAIN inflight, outcome \in Outcomes, storeOk \in BOOLEAN, navOk \in BOOLEAN :
          SendSettle(r, outcome, storeOk, navOk)
    \/ \E newOtp \in {EmptyOtp, <<<<"1">>, <<"2">>, <<"3">>, <<"4">>>>} : handleOTPChange(newOtp)
    \/ handleResendCode
    \/ \E r \in DOMAIN inflight, outcome \in Outcomes : ResendSettle(r, outcome)
    \/ handleSubmit
    \/ \E r \in DOMAIN inflight, outcome \in Outcomes : VerifySettle(r, outcome)

SpecLive == InitLive /\ [][NextLive]_vars /\ Fairness

-----------------------------------------------------------------------------
(* The confirm page, opened on whatever localStorage holds                 *)

\* a registration text with fields named code and method
RegTextWithCode ==
    JSONStringify([email |-> Email2, code |-> <<"9", "9", "9", "9">>, method |-> <<"f", "a", "x">>])

ConfirmRegTexts == {InvalidText, NullText, JSONStringify([email |-> Email2]), RegTextWithCode}

\* otp_method holding phone, the empty text, or a text that is no method
ConfirmMethodTexts == {PHONE, EMPTY, <<"x">>}

ConfirmStorages ==
    {StorageOf(reg, method) :
        reg \in {<<>>} \cup {<<t>> : t \in ConfirmRegTexts},
        method \in {<<>>} \cup {<<m>> : m \in ConfirmMethodTexts}}

InitConfirm ==
    /\ route = "none"
    /\ storage \in ConfirmStorages
    /\ Unmounted
    /\ inflight = EmptyBag
    /\ act = [name |-> "init"]
    /\ ev = <<>>

NextConfirm ==
    \/ Load("/otp-confirm")
    \/ \E newOtp \in PageOtps : handleOTPChange(newOtp)
    \/ handleResendCode
    \/ \E r \in DOMAIN inflight, outcome \in Outcomes : ResendSettle(r, outcome)
    \/ handleSubmit
    \/ \E r \in DOMAIN inflight, outcome \in Outcomes : VerifySettle(r, outcome)

SpecConfirm == InitConfirm /\ [][NextConfirm]_vars

-----------------------------------------------------------------------------
(* Properties                                                              *)

\* the rule of each field, as the Form Validation Schema is documented
Violates(f, data) ==
    CASE f = "firstName" -> data.firstName = UNDEF \/ Len(data.firstName) < 2
      [] f = "lastName" -> data.lastName = UNDEF \/ Len(data.lastName) < 2
      [] f = "gender" -> data.gender \notin {GenderMale, GenderFemale, GenderOther}
      [] f = "country" -> data.country = UNDEF \/ data.country = EMPTY
      [] f = "email" -> data.email = UNDEF \/ data.email = EMPTY \/ ~IsEmail(data.email)
      [] f = "phone" -> data.phone = UNDEF \/ Len(data.phone) < 10
      [] f = "acceptTerms" -> data.acceptTerms # TRUE

PassesValidation(data) == \A f \in Fields : ~Violates(f, data)

\* the registration key holds the text of a record that passes validation
HoldsValidRecord(st) ==
    /\ "wynn_registration_data" \in DOMAIN st
    /\ st["wynn_registration_data"].kind = "object"
    /\ DOMAIN st["wynn_registration_data"].props = Fields
    /\ PassesValidation(st["wynn_registration_data"].props)

StoredRecord(st) == st["wynn_registration_data"].props

\* C1: end to end. A valid record submitted through the form is stored under
\* the key the send controller reads at mount (it then holds the record's email
\* and phone); a send request carries the email (or phone) of the valid record
\* in storage; a send whose request and whose calls succeed stores the method
\* of that request under otp_method and lands on the confirm step with that
\* method, which the confirm controller keeps; a verify request carries that
\* method, the joined code and every field of the valid record in storage;
\* after a successful verify neither key is in storage.
C1_Step ==
    /\ (pending # <<>> /\ route' = "/otp-send") =>
          /\ PassesValidation(pending[1])
          /\ "wynn_registration_data" \in DOMAIN storage'
          /\ storage'["wynn_registration_data"] = JSONStringify(pending[1])
          /\ userEmail' = pending[1].email
          /\ userPhone' = pending[1].phone
    /\ (act'.name = "handleNext" /\ ~act'.refused /\ HoldsValidRecord(storage)) =>
          ev' = <<IF selectedMethod = EMAIL
                  THEN sendOTPEmail(StoredRecord(storage).email)
                  ELSE sendOTPPhone(StoredRecord(storage).phone)>>
    /\ (/\ act'.name = "handleNext.settle"
        /\ act'.outcome = "ok"
        /\ ~Has(ev', "setItem.throws")
        /\ ~Has(ev', "push.throws")) =>
          /\ "otp_method" \in DOMAIN storage'
          /\ storage'["otp_method"] = act'.method
          /\ route' = "/otp-confirm"
          /\ route # "/otp-confirm" => otpMethod' = act'.method
    /\ (route = "/otp-confirm" /\ route' = "/otp-confirm") => otpMethod' = otpMethod
    /\ (act'.name = "handleSubmit.otp" /\ act'.issued) =>
          LET request == ev'[Len(ev')] IN
          /\ request.op = "fetch"
          /\ request.path = "/register"
          /\ request.body.method = otpMethod
          /\ request.body.code = Join(otp)
          /\ HoldsValidRecord(storage) =>
                \A f \in Fields : request.body[f] = StoredRecord(storage)[f]
    /\ (act'.name = "handleSubmit.settle" /\ act'.outcome = "ok") =>
          /\ "otp_method" \notin DOMAIN storage'
          /\ "wynn_registration_data" \notin DOMAIN storage'

C1_EndToEnd == [][C1_Step]_vars

\* a verify request is issued for a complete code while storage holds the valid
\* record and the method the send step stored
C1_Witness ==
    /\ act.name = "handleSubmit.otp"
    /\ act.issued
    /\ HoldsValidRecord(storage)
    /\ "otp_method" \in DOMAIN storage
    /\ storage["otp_method"] = otpMethod
    /\ otpMethod = EMAIL
    /\ ev[Len(ev)].body.email = Email1

\* C2: a submit attempt on the form whose record fails validation writes
\* nothing to storage, calls neither setItem nor push, leaves the page where it
\* is and ends with isSubmitting false and field errors set; a submit attempt
\* that writes or navigates is one whose record passes validation.
C2_Step ==
    pending # <<>> =>
        /\ ~PassesValidation(pending[1]) =>
              /\ storage' = storage
              /\ route' = route
              /\ ev' = <<>>
              /\ isSubmitting' = FALSE
              /\ pending' = <<>>
              /\ DOMAIN errors' # {}
        /\ (storage' # storage \/ route' # route \/ Has(ev', "setItem") \/ Has(ev', "push")) =>
              PassesValidation(pending[1])

C2_InvalidSubmitWritesNothing == [][C2_Step]_vars

\* a submit attempt has been refused: errors are set, nothing is stored
C2_Witness ==
    /\ act.name = "handleSubmit"
    /\ ~act.valid
    /\ DOMAIN errors # {}
    /\ storage = NoKeys
    /\ route = "/"
    /\ ~isSubmitting

\* C3: every text the registration controller writes under the registration
\* key, through handleSubmit or through onSubmit, is a record with all seven
\* fields, each satisfying its rule.
C3_PersistedRecordIsValid ==
    \A i \in 1..Len(ev) :
        (ev[i].op = "setItem" /\ ev[i].key = "wynn_registration_data") =>
            /\ ev[i].text.kind = "object"
            /\ DOMAIN ev[i].text.props = Fields
            /\ PassesValidation(ev[i].text.props)

\* C4: when setItem throws in a submit, push is not called, the page stays,
\* storage is unchanged, no exception leaves the handler and isSubmitting ends
\* false; when push throws, the exception is caught as well, the page stays
\* and isSubmitting ends false.
C4_Step ==
    /\ Has(ev', "setItem.throws") /\ act'.name \in {"handleSubmit", "onSubmit"} =>
          /\ ~Has(ev', "push")
          /\ route' = route
          /\ storage' = storage
          /\ ~Has(ev', "throw")
          /\ isSubmitting' = FALSE
          /\ pending' = <<>>
    /\ Has(ev', "push.throws") /\ act'.name \in {"handleSubmit", "onSubmit"} =>
          /\ ~Has(ev', "push")
          /\ route' = route
          /\ ~Has(ev', "throw")
          /\ isSubmitting' = FALSE
          /\ pending' = <<>>

C4_FailedSaveStaysEditing == [][C4_Step]_vars

\* the storage write of a valid submit has thrown
C4_Witness ==
    /\ act.name = "handleSubmit"
    /\ act.valid
    /\ Has(ev, "setItem.throws")
    /\ route = "/"
    /\ ~isSubmitting

\* C5: after a submit attempt the fields carrying an error are exactly the
\* fields that violate their own rule.
C5_Step ==
    pending # <<>> => DOMAIN errors' = {f \in Fields : Violates(f, pending[1])}

C5_ErrorsAreExactlyTheViolations == [][C5_Step]_vars

\* a submit attempt has left an error on every field
C5_Witness ==
    /\ act.name = "handleSubmit"
    /\ ~act.valid
    /\ DOMAIN errors = Fields

\* C6: next with no method selected sets the local message and does nothing
\* else: no request, isLoading as it was (false stays false), storage and page
\* untouched.
C6_Step ==
    (act'.name = "handleNext" /\ selectedMethod = EMPTY) =>
        /\ message' = "Please select a method first"
        /\ ev' = <<>>
        /\ inflight' = inflight
        /\ isLoading' = isLoading
        /\ storage' = storage
        /\ route' = route

C6_NextWithoutMethodIsRefused == [][C6_Step]_vars

\* next has been refused on an idle controller
C6_Witness ==
    /\ act.name = "handleNext"
    /\ act.refused
    /\ message = "Please select a method first"
    /\ ~isLoading
    /\ inflight = EmptyBag
    /\ route = "/otp-send"

ContactInStorage(st, k) ==
    IF "wynn_registration_data" \in DOMAIN st /\ st["wynn_registration_data"].kind = "object"
    THEN <<OrEmpty(st["wynn_registration_data"].props, k)>> ELSE <<>>

\* C7: next with email (phone) selected issues exactly one request of that
\* method carrying the stored email (phone) and neither writes nor navigates;
\* otp_method is written, and the confirmation step is navigated to, only in
\* the continuation of a send request that succeeded, the value written is the
\* method of that request, and the write comes before the push.
C7_Step ==
    /\ (act'.name = "handleNext" /\ selectedMethod \in {EMAIL, PHONE}) =>
          /\ ev' = <<IF selectedMethod = EMAIL THEN sendOTPEmail(userEmail)
                      ELSE sendOTPPhone(userPhone)>>
          /\ inflight' = inflight (+) SetToBag({Request("send", selectedMethod)})
          /\ storage' = storage
          /\ route' = route
          /\ ContactInStorage(storage, "email") # <<>> =>
                /\ userEmail = ContactInStorage(storage, "email")[1]
                /\ userPhone = ContactInStorage(storage, "phone")[1]
    /\ \A i \in 1..Len(ev') :
          /\ (ev'[i].op = "setItem" /\ ev'[i].key = "otp_method") =>
                /\ act'.name = "handleNext.settle"
                /\ act'.outcome = "ok"
                /\ ev'[i].text = act'.method
          /\ (ev'[i].op = "push" /\ ev'[i].path = "/otp-confirm") =>
                /\ act'.name = "handleNext.settle"
                /\ act'.outcome = "ok"
                /\ \E j \in 1..(i - 1) :
                      /\ ev'[j].op = "setItem"
                      /\ ev'[j].key = "otp_method"
                      /\ ev'[j].text = act'.method
    /\ ("otp_method" \in DOMAIN storage' /\ getItem(storage', "otp_method") # getItem(storage, "otp_method")) =>
          /\ act'.name = "handleNext.settle"
          /\ act'.outcome = "ok"
          /\ storage'["otp_method"] = act'.method
    /\ (route = "/otp-send" /\ route' = "/otp-confirm") =>
          /\ act'.name = "handleNext.settle"
          /\ act'.outcome = "ok"

C7_MethodStoredAfterSendSucceeds == [][C7_Step]_vars

\* a phone request has succeeded: the method is stored and the confirm step shown
C7_Witness ==
    /\ act.name = "handleNext.settle"
    /\ act.outcome = "ok"
    /\ act.method = PHONE
    /\ Has(ev, "push")
    /\ route = "/otp-confirm"
    /\ storage["otp_method"] = PHONE
    /\ otpMethod = PHONE

\* C8: when the send request fails (rejected fetch, status that is not 2xx,
\* body that does not parse) the continuation neither stores the method nor
\* pushes the router, lets no exception out, and leaves a mounted controller
\* with the retry message, isLoading false and the selection it had.
C8_Step ==
    (/\ act'.name = "handleNext.settle"
     /\ act'.outcome \in {"network_error", "http_error", "invalid_body"}) =>
        /\ ~Has(ev', "push")
        /\ ~Has(ev', "setItem")
        /\ ~Has(ev', "throw")
        /\ storage' = storage
        /\ route' = route
        /\ act'.live =>
              /\ message' = "Failed to send OTP. Please try again."
              /\ isLoading' = FALSE
              /\ selectedMethod' = selectedMethod

C8_FailedSendStaysOnStep == [][C8_Step]_vars

\* a send request has come back with a status that is not 2xx
C8_Witness ==
    /\ act.name = "handleNext.settle"
    /\ act.outcome = "http_error"
    /\ act.live
    /\ message = "Failed to send OTP. Please try again."
    /\ ~isLoading
    /\ route = "/otp-send"

\* C9: whatever the registration key holds when the send controller mounts
\* (nothing, a text that is no JSON, null, a record without email or phone), no
\* exception leaves the mount and the contact value that is missing is the
\* empty string; next with a method selected then issues the request with the
\* empty string.
C9_Step ==
    /\ (route' = "/otp-send" /\ route # "/otp-send") =>
          LET item == getItem(storage', "wynn_registration_data") IN
          /\ ~Has(ev', "throw")
          /\ (item = <<>> \/ item[1].kind # "object") =>
                userEmail' = EMPTY /\ userPhone' = EMPTY
          /\ (item # <<>> /\ item[1].kind = "object" /\ "email" \notin DOMAIN item[1].props) =>
                userEmail' = EMPTY
          /\ (item # <<>> /\ item[1].kind = "object" /\ "phone" \notin DOMAIN item[1].props) =>
                userPhone' = EMPTY
    /\ (act'.name = "handleNext" /\ selectedMethod = EMAIL /\ userEmail = EMPTY) =>
          ev' = <<sendOTPEmail(EMPTY)>>
    /\ (act'.name = "handleNext" /\ selectedMethod = PHONE /\ userPhone = EMPTY) =>
          ev' = <<sendOTPPhone(EMPTY)>>

C9_MountToleratesAnyStoredText == [][C9_Step]_vars

\* next has issued an email request with the empty string after a mount on a
\* text that is no JSON
C9_Witness ==
    /\ act.name = "handleNext"
    /\ ~act.refused
    /\ route = "/otp-send"
    /\ getItem(storage, "wynn_registration_data") = <<InvalidText>>
    /\ ev = <<sendOTPEmail(EMPTY)>>

\* the completeness predicate: four cells, each a single character
Complete(cells) == Len(cells) = 4 /\ \A i \in 1..4 : Len(cells[i]) = 1

\* C10: for every buffer handleOTPChange may have set, submit issues a verify
\* request only if the buffer is complete, and on an incomplete buffer it
\* issues nothing.
C10_SubmitOnlyWhenComplete ==
    act.name = "handleSubmit.otp" =>
        /\ act.issued => Complete(otp)
        /\ ~Complete(otp) => ~Has(ev, "fetch")

\* does a request of this kind, issued by the mounted controller, await its response
LiveInFlight(kind) == \E r \in DOMAIN inflight : r.kind = kind /\ r.live

\* C11: when a verify request succeeds, the continuation removes otp_method
\* and the registration key from storage and pushes no route; the mounted
\* controller's buffer becomes four empty cells and isVerifying false.
C11_Step ==
    (act'.name = "handleSubmit.settle" /\ act'.outcome = "ok") =>
        /\ "otp_method" \notin DOMAIN storage'
        /\ "wynn_registration_data" \notin DOMAIN storage'
        /\ \A k \in DOMAIN storage' : storage'[k] = storage[k]
        /\ Has(ev', "toast.success")
        /\ ~Has(ev', "push")
        /\ ~Has(ev', "throw")
        /\ route' = route
        /\ act'.live =>
              /\ otp' = EmptyOtp
              /\ isVerifying' = FALSE

C11_VerifySuccessClearsKeysAndBuffer == [][C11_Step]_vars

\* a verify request has succeeded on a storage that held both keys
C11_Witness ==
    /\ act.name = "handleSubmit.settle"
    /\ act.outcome = "ok"
    /\ act.live
    /\ route = "/otp-confirm"
    /\ ev = <<EvToastSuccess, EvRemoveItem("otp_method"), EvRemoveItem("wynn_registration_data")>>
    /\ storage = NoKeys
    /\ otp = EmptyOtp
    /\ ~isVerifying

\* C12: when a verify request fails (rejected fetch, status that is not 2xx,
\* body that does not parse) the continuation raises the error notification,
\* lets no exception out, pushes no route and leaves storage as it is; the
\* mounted controller's buffer becomes four empty cells and isVerifying false.
C12_Step ==
    (/\ act'.name = "handleSubmit.settle"
     /\ act'.outcome \in {"network_error", "http_error", "invalid_body"}) =>
        /\ Has(ev', "toast.error")
        /\ ~Has(ev', "toast.success")
        /\ ~Has(ev', "throw")
        /\ ~Has(ev', "push")
        /\ ~Has(ev', "removeItem")
        /\ storage' = storage
        /\ route' = route
        /\ act'.live =>
              /\ otp' = EmptyOtp
              /\ isVerifying' = FALSE

C12_VerifyFailureClearsBuffer == [][C12_Step]_vars

\* a verify request has been rejected and both keys are still stored
C12_Witness ==
    /\ act.name = "handleSubmit.settle"
    /\ act.outcome = "network_error"
    /\ act.live
    /\ route = "/otp-confirm"
    /\ Has(ev, "toast.error")
    /\ "otp_method" \in DOMAIN storage
    /\ "wynn_registration_data" \in DOMAIN storage
    /\ otp = EmptyOtp
    /\ ~isVerifying

\* C13: resend issues one resend request for the controller's current method;
\* when it succeeds the mounted controller's buffer becomes four empty cells,
\* when it fails the buffer is what it was; in both cases isResending becomes
\* false and storage is unchanged.
C13_Step ==
    /\ act'.name = "handleResendCode" =>
          /\ ev' = <<resendOTP(otpMethod)>>
          /\ \E r \in DOMAIN inflight' :
                /\ r = Request("resend", otpMethod)
                /\ CountOf(inflight', r) = CountOf(inflight, r) + 1
          /\ isResending' = TRUE
          /\ otp' = otp
          /\ storage' = storage
    /\ act'.name = "handleResendCode.settle" =>
          /\ storage' = storage
          /\ route' = route
          /\ ~Has(ev', "throw")
          /\ act'.live =>
                /\ isResending' = FALSE
                /\ act'.outcome = "ok" => otp' = EmptyOtp
                /\ act'.outcome # "ok" => otp' = otp

C13_ResendClearsOnlyOnSuccess == [][C13_Step]_vars

\* a resend request has failed under a partial buffer, which is still there
C13_Witness ==
    /\ act.name = "handleResendCode.settle"
    /\ act.outcome = "http_error"
    /\ act.live
    /\ otp = <<<<"1">>, <<"2">>, EMPTY, EMPTY>>
    /\ ~isResending
    /\ Has(ev, "toast.error")

\* a flag is up only while a request of its kind, issued by the mounted
\* controller, awaits its response
C14_FlagsFollowRequests ==
    /\ isResending => LiveInFlight("resend")
    /\ isVerifying => LiveInFlight("verify")

\* a settling request lowers its own flag and leaves the other one; the verify
\* continuation empties the buffer, and no step but handleOTPChange puts a
\* digit into an empty buffer
C14_Step ==
    /\ (act'.name = "handleResendCode.settle" /\ act'.live) =>
          /\ isResending' = FALSE
          /\ isVerifying' = isVerifying
    /\ (act'.name = "handleSubmit.settle" /\ act'.live) =>
          /\ isVerifying' = FALSE
          /\ isResending' = isResending
          /\ otp' = EmptyOtp
    /\ (act'.name # "handleOTPChange" /\ otp = EmptyOtp) => otp' = EmptyOtp

\* C14: a resend and a verify request can await their responses at the same
\* time; in whatever order they settle, each lowers its own flag only, so that
\* with both settled both flags are false, and unless handleOTPChange is
\* called in between the buffer is four empty cells from the moment the verify
\* request has settled.
C14_ConcurrentResendAndVerify == [](C14_FlagsFollowRequests) /\ [][C14_Step]_vars

\* the verify request has settled while the resend request is still awaited
C14_Witness ==
    /\ act.name = "handleSubmit.settle"
    /\ act.live
    /\ isResending
    /\ LiveInFlight("resend")
    /\ ~isVerifying
    /\ otp = EmptyOtp

\* a resend and a verify request await their responses at the same time
C14_BothInFlight ==
    /\ isResending
    /\ isVerifying
    /\ LiveInFlight("resend")
    /\ LiveInFlight("verify")

\* the decimal digits of a text, in order
DigitsOf(text) == SelectSeq(text, LAMBDA c : c \in Digit)

\* a fresh 4-cell array holding the first up-to-4 characters of a text from cell 0
Distribute(text) == [i \in 1..4 |-> IF i <= Len(text) THEN <<text[i]>> ELSE EMPTY]

\* the cells that hold something
Filled(cells) == {i \in 1..Len(cells) : cells[i] # EMPTY}

\* C15: after a paste into cell 0 the buffer is the fresh 4-cell array holding
\* the first up-to-4 decimal digits of the clipboard text, non-digits removed
\* before the truncation, in order from cell 0, the other cells empty.
C15_PasteKeepsFirstFourDigits ==
    (act.name = "paste" /\ act.index = 0) =>
        otp = Distribute(SubSeq(DigitsOf(act.text), 1, Min(4, Len(DigitsOf(act.text)))))

\* C18: after a paste into cell 0 the focus is on cell min(d, 3), d being the
\* number of digits the paste has placed into the buffer.
C18_PasteFocusFollowsDigitCount ==
    (act.name = "paste" /\ act.index = 0) =>
        focus = Min(Cardinality(Filled(otp)), 3)

\* C19: a paste event on cell 1, 2 or 3 is suppressed: the buffer is what it
\* was, onChange is not called and the browser's default paste is cancelled.
C19_Step ==
    (act'.name = "paste" /\ act'.index \in 1..3) =>
        /\ otp' = otp
        /\ ~Has(ev', "onChange")
        /\ Has(ev', "preventDefault")

C19_PasteOnOtherCellsIsNoOp == [][C19_Step]_vars

\* C20: whatever is typed, deleted and pasted in the widget, starting from the
\* empty buffer, the buffer has 4 cells and each cell is empty or one decimal
\* digit.
C20_CellsAreEmptyOrOneDigit ==
    route = "/otp-confirm" =>
        /\ Len(otp) = 4
        /\ \A i \in 1..4 : otp[i] = EMPTY \/ (Len(otp[i]) = 1 /\ otp[i][1] \in Digit)

\* the documented templates: the groups, what opens the first group, and what
\* separates a group from the next one
Template(dialCode) ==
    CASE dialCode = "+1" ->
            [groups |-> <<3, 3, 4>>, open |-> <<"(">>, seps |-> <<<<")", " ">>, <<"-">>>>]
      [] dialCode = "+44" ->
            [groups |-> <<4, 3, 4>>, open |-> EMPTY, seps |-> <<<<" ">>, <<" ">>>>]
      [] dialCode = "+971" ->
            [groups |-> <<3, 4>>, open |-> <<"(">>, seps |-> <<<<")", " ", "-", " ">>>>]
      [] OTHER ->
            [groups |-> <<3, 3, 4>>, open |-> EMPTY, seps |-> <<<<" ">>, <<" ">>>>]

RECURSIVE Grouped(_, _, _)
\* the digits laid out group by group, a separator before every further group
\* that has a digit, the digits no group has room for dropped
Grouped(digits, groups, seps) ==
    IF digits = EMPTY \/ groups = <<>> THEN EMPTY
    ELSE LET part == SubSeq(digits, 1, Min(Head(groups), Len(digits)))
             rest == SubSeq(digits, Head(groups) + 1, Len(digits)) IN
         part \o (IF rest # EMPTY /\ Len(groups) > 1
                  THEN Head(seps) \o Grouped(rest, Tail(groups), Tail(seps))
                  ELSE EMPTY)

\* the reference: the digits alone up to the first group's length, else the
\* progressive template
FormatReference(raw, dialCode) ==
    LET digits == DigitsOf(raw)
        t == Template(dialCode) IN
    IF Len(digits) <= t.groups[1] THEN digits
    ELSE t.open \o Grouped(digits, t.groups, t.seps)

\* C16: for every text of the input and every dial code, what the formatter
\* yields (and the component keeps and passes to onChange) is the reference:
\* the non-digits removed, then the dial code's progressive template.
C16_FormatterMatchesReference ==
    act.name = "handlePhoneChange" =>
        /\ phoneNumber = FormatReference(act.raw, act.dialCode)
        /\ ev = <<EvOnChange(FormatReference(act.raw, act.dialCode))>>

\* a pasted text with a non-digit and more digits than the +1 template holds
C16_Witness ==
    /\ act.name = "handlePhoneChange"
    /\ act.dialCode = "+1"
    /\ act.raw = <<"9", "8", "7", "-", "6", "5", "4", "3", "2", "1", "0", "9", "8", "7">>
    /\ phoneNumber = <<"(", "9", "8", "7", ")", " ", "6", "5", "4", "-", "3", "2", "1", "0">>

\* C17: a country selection leaves the component with the empty phone value
\* and the new country, whatever the value was, having called
\* onCountryChange(country), when the parent has passed it, and then
\* onChange(""); the following edit starts from the empty text, and every edit
\* is formatted with the dial code of the country selected at that time.
C17_Step ==
    /\ act'.name = "handleCountryChange" =>
          /\ phoneNumber' = EMPTY
          /\ value' = EMPTY
          /\ selectedCountry' = act'.country
          /\ ev' = (IF act'.notify THEN <<EvOnCountryChange(act'.country)>> ELSE <<>>)
                   \o <<EvOnChange(EMPTY)>>
    /\ act'.name = "handlePhoneChange" =>
          /\ act'.dialCode = selectedCountry.dialCode
          /\ phoneNumber' = formatPhoneNumber(act'.raw, selectedCountry.dialCode)
          /\ act.name = "handleCountryChange" =>
                \/ Len(act'.raw) <= 1
                \/ act'.raw \in PhonePastes

C17_CountryChangeClearsPhone == [][C17_Step]_vars

\* the country has been changed to US over a formatted UAE number
C17_Witness ==
    /\ act.name = "handleCountryChange"
    /\ act.notify
    /\ act.prior = <<"(", "9", "8", "7", ")", " ", "-", " ", "6", "5", "4", "3">>
    /\ selectedCountry.dialCode = "+1"
    /\ phoneNumber = EMPTY
    /\ ev = <<EvOnCountryChange(selectedCountry), EvOnChange(EMPTY)>>

\* C21: a change event on cell i with a value longer than one character
\* changes neither buffer nor focus and calls nothing; with a value of length 0
\* or 1 it sets cell i to the value, leaves the other cells, calls onChange once
\* with the new array, and moves the focus to cell i+1 exactly when the value
\* is not empty and i < 3.
C21_Step ==
    act'.name = "handleInputChange" =>
        LET i == act'.index
            v == act'.inputValue IN
        IF Len(v) > 1
        THEN /\ otp' = otp
             /\ focus' = focus
             /\ ev' = <<>>
        ELSE /\ otp'[i + 1] = v
             /\ \A j \in 1..4 : j # i + 1 => otp'[j] = otp[j]
             /\ Len(otp') = 4
             /\ Len(SelectSeq(ev', LAMBDA e : e.op = "onChange")) = 1
             /\ ev'[1] = EvOnChange(otp')
             /\ focus' = IF v # EMPTY /\ i < 3 THEN i + 1 ELSE focus
             /\ Has(ev', "focus") <=> (v # EMPTY /\ i < 3)

C21_ChangeEventSetsOneCell == [][C21_Step]_vars

\* a value of two characters has come for cell 1, which holds a digit: refused
C21_Refused ==
    /\ act.name = "handleInputChange"
    /\ act.index = 1
    /\ act.inputValue = <<"1", "2">>
    /\ otp[2] = <<"7">>
    /\ focus = 1
    /\ ev = <<>>

\* a digit has come for cell 2 and the focus has moved to cell 3
C21_Witness ==
    /\ act.name = "handleInputChange"
    /\ act.index = 2
    /\ act.inputValue = <<"7">>
    /\ otp[3] = <<"7">>
    /\ focus = 3

\* C28: a Backspace key press on cell i moves the focus to cell i-1 exactly
\* when cell i is empty and i > 0; the key handler changes no cell, and on
\* cell 0 the focus stays on cell 0.
C28_Step ==
    act'.name = "handleKeyDown" =>
        LET i == act'.index IN
        /\ otp' = otp
        /\ ~Has(ev', "onChange")
        /\ act'.key = "Backspace" =>
              /\ (otp[i + 1] = EMPTY /\ i > 0) => (focus' = i - 1 /\ ev' = <<EvFocus(i - 1)>>)
              /\ ~(otp[i + 1] = EMPTY /\ i > 0) => (focus' = focus /\ ev' = <<>>)
              /\ i = 0 => focus' = 0

C28_BackspaceRetreatsFromEmptyCell == [][C28_Step]_vars

\* Backspace on the empty cell 2 has moved the focus to cell 1, which keeps its digit
C28_Witness ==
    /\ act.name = "handleKeyDown"
    /\ act.key = "Backspace"
    /\ act.index = 2
    /\ otp[3] = EMPTY
    /\ otp[2] = <<"7">>
    /\ focus = 1

\* C22: isVerifying (isResending) is true in exactly the states where a verify
\* (resend) request issued by the mounted confirm controller has not settled,
\* and isLoading in exactly the states where a send request of the mounted send
\* controller has not settled, a second invocation during the first included.
C22_FlagsExactlyWhileInFlight ==
    /\ isResending <=> LiveInFlight("resend")
    /\ isVerifying <=> LiveInFlight("verify")
    /\ isLoading <=> LiveInFlight("send")

\* the requests of one kind that have not settled, mounted or not
InFlightOf(kind) ==
    LET rs == {r \in DOMAIN inflight : r.kind = kind}
        Sum[S \in SUBSET rs] ==
            IF S = {} THEN 0 ELSE LET r == CHOOSE x \in S : TRUE IN inflight[r] + Sum[S \ {r}]
    IN Sum[rs]

\* C23: driven through the page controls only, the send step's Next button is
\* disabled whenever no method is selected or a send is in flight and its radios
\* are disabled while a send is in flight; the confirm step's Next button is
\* disabled whenever the code is incomplete or a verify is in flight and its
\* cells are disabled while a verify is in flight; so at most one send request
\* and at most one verify request is in flight at any time.
C23_ControlsAllowOneRequest ==
    /\ route = "/otp-send" =>
          /\ (selectedMethod = EMPTY \/ LiveInFlight("send")) => SendNextDisabled
          /\ LiveInFlight("send") => RadiosDisabled
    /\ route = "/otp-confirm" =>
          /\ (~isCodeComplete \/ LiveInFlight("verify")) => ConfirmNextDisabled
          /\ LiveInFlight("verify") => ~OtpInputEnabled
    /\ InFlightOf("send") <= 1
    /\ InFlightOf("verify") <= 1

\* the part of C23 about the controls of the mounted page
C23_ControlsFollowMountedRequests ==
    /\ route = "/otp-send" =>
          /\ (selectedMethod = EMPTY \/ LiveInFlight("send")) => SendNextDisabled
          /\ LiveInFlight("send") => RadiosDisabled
    /\ route = "/otp-confirm" =>
          /\ (~isCodeComplete \/ LiveInFlight("verify")) => ConfirmNextDisabled
          /\ LiveInFlight("verify") => ~OtpInputEnabled
    /\ \A r \in DOMAIN inflight : r.live /\ r.kind \in {"send", "verify"} => inflight[r] = 1

\* C24: given that every issued request settles in the end, every send, resend
\* and verify returns its controller to idle (isLoading, isResending,
\* isVerifying false), and every failed action leaves a message on the mounted
\* send page or an error notification; no failure leaves a controller stuck.
C24_Step ==
    /\ (act'.name = "handleNext.settle" /\ act'.live /\ Has(ev', "console.error")) =>
          /\ message' = "Failed to send OTP. Please try again."
          /\ ~isLoading'
    /\ (act'.name = "handleResendCode.settle" /\ ApiThrows(act'.outcome)) =>
          /\ Has(ev', "toast.error")
          /\ act'.live => ~isResending'
    /\ (act'.name = "handleSubmit.settle" /\ ApiThrows(act'.outcome)) =>
          /\ Has(ev', "toast.error")
          /\ act'.live => ~isVerifying'

Fetched(events) == SelectSeq(events, LAMBDA e : e.op = "fetch")

\* C25: for every registration payload read from storage at submit (absent,
\* malformed, or with fields named code or method), the body of the verify
\* request has the four entered digits joined in cell order as its code, the
\* controller's method as its method, and every other field of the payload.
C25_Step ==
    (act'.name = "handleSubmit.otp" /\ act'.issued) =>
        LET body == Fetched(ev')[1].body
            payload == IF RegistrationData.isNull THEN NoKeys ELSE RegistrationData.props IN
        /\ Len(Fetched(ev')) = 1
        /\ body.code = otp[1] \o otp[2] \o otp[3] \o otp[4]
        /\ body.method = otpMethod
        /\ \A k \in DOMAIN payload \ {"code", "method"} : k \in DOMAIN body /\ body[k] = payload[k]

C25_VerifyBodyCarriesEnteredCode == [][C25_Step]_vars

\* the method the mount effect is said to set: the stored text if there is one
StoredMethodIfPresent(st) == IF "otp_method" \in DOMAIN st THEN st["otp_method"] ELSE EMAIL

\* the same, with the empty text counting as no text
StoredMethodIfNotEmpty(st) ==
    IF "otp_method" \in DOMAIN st /\ st["otp_method"] # EMPTY THEN st["otp_method"] ELSE EMAIL

\* C26, as stated: on mount the confirm controller's method is the value
\* stored under otp_method when one is present and email when the key is
\* absent; a value that is neither email nor phone is passed through unchanged
\* and is the method of the resend and verify requests.
C26_MountStep ==
    (route' = "/otp-confirm" /\ route # "/otp-confirm") =>
        otpMethod' = StoredMethodIfPresent(storage')

C26_AmendedStep ==
    /\ (route' = "/otp-confirm" /\ route # "/otp-confirm") =>
          otpMethod' = StoredMethodIfNotEmpty(storage')
    /\ act'.name = "handleResendCode" =>
          /\ Fetched(ev')[1].body.method = otpMethod
          /\ CountOf(inflight', Request("resend", otpMethod)) = CountOf(inflight, Request("resend", otpMethod)) + 1
    /\ (act'.name = "handleSubmit.otp" /\ act'.issued) =>
          /\ CountOf(inflight', Request("verify", otpMethod)) = CountOf(inflight, Request("verify", otpMethod)) + 1
          /\ (RegistrationData.isNull \/ "method" \notin DOMAIN RegistrationData.props) =>
                Fetched(ev')[1].body.method = otpMethod
    /\ otpMethod' # otpMethod => route' # route

C26_EmptyStoredMethod ==
    /\ route = "/otp-confirm"
    /\ getItem(storage, "otp_method") = <<EMPTY>>
    /\ otpMethod = EMAIL

\* C27: selecting a row of the Country Selector calls onCountryChange once
\* with that country, closes the panel and empties the search term; a
\* pointer-down outside the trigger and the panel while the panel is open
\* closes the panel and empties the search term without calling
\* onCountryChange.
C27_Step ==
    /\ act'.name = "handleCountryChange" =>
          /\ isOpen
          /\ act'.country \in filteredCountries(searchTerm)
          /\ selectedCountry' = act'.country
          /\ Len(SelectSeq(ev', LAMBDA e : e.op = "onCountryChange")) = (IF act'.notify THEN 1 ELSE 0)
          /\ act'.notify => ev'[1] = EvOnCountryChange(act'.country)
          /\ ~isOpen'
          /\ searchTerm' = EMPTY
    /\ (act'.name = "handleClickOutside" /\ act'.target = "outside") =>
          /\ isOpen
          /\ ~isOpen'
          /\ searchTerm' = EMPTY
          /\ ev' = <<>>
          /\ selectedCountry' = selectedCountry
          /\ phoneNumber' = phoneNumber
    /\ (act'.name = "handleClickOutside" /\ act'.target # "outside") =>
          UNCHANGED <<isOpen, searchTerm, selectedCountry, phoneNumber>>

C27_SelectAndOutsideClickClose == [][C27_Step]_vars

\* an outside click has closed the panel, whose search box held "fr"
C27_Witness ==
    /\ act.name = "handleClickOutside"
    /\ act.target = "outside"
    /\ act.term = <<"f", "r">>
    /\ ~isOpen
    /\ searchTerm = EMPTY

\* France has been selected and the panel is closed with an empty search box
C27_Selected ==
    /\ act.name = "handleCountryChange"
    /\ act.country.code = "FR"
    /\ selectedCountry = act.country
    /\ ~isOpen
    /\ searchTerm = EMPTY

\* C30: after any sequence of trigger clicks, search edits, row selections and
\* outside clicks, the search term is empty whenever the panel is closed.
C30_ClosedPanelHasEmptyTerm == ~isOpen => searchTerm = EMPTY

\* C29: the registration key and the otp_method key leave storage only in the
\* continuation of a successful verify; a failed verify, a resend with either
\* outcome, a failed send, a refused next and a submit on an incomplete code
\* leave storage as it was, so that after a failed verify the payload and the
\* method of a retry are the same.
C29_Step ==
    /\ (\E k \in DOMAIN storage : k \notin DOMAIN storage') =>
          (act'.name = "handleSubmit.settle" /\ act'.outcome = "ok")
    /\ (act'.name = "handleSubmit.settle" /\ ApiThrows(act'.outcome)) =>
          /\ storage' = storage
          /\ RegistrationData' = RegistrationData
          /\ act'.live => otpMethod' = otpMethod
    /\ act'.name \in {"handleResendCode", "handleResendCode.settle"} => storage' = storage
    /\ (act'.name = "handleNext.settle" /\ ApiThrows(act'.outcome)) => storage' = storage
    /\ (act'.name = "handleNext" /\ act'.refused) => storage' = storage
    /\ (act'.name = "handleSubmit.otp" /\ ~act'.issued) => storage' = storage

C29_KeysRemovedOnlyByVerifySuccess == [][C29_Step]_vars

\* a verify request has failed and both keys are still in storage
C29_Witness ==
    /\ act.name = "handleSubmit.settle"
    /\ ApiThrows(act.outcome)
    /\ act.live
    /\ "otp_method" \in DOMAIN storage
    /\ "wynn_registration_data" \in DOMAIN storage

====
